---- MODULE Spec2Model ----
(***************************************************************************)
(* Trade lifecycle, risk governor and trading session of the               *)
(* algo-execution-service.                                                 *)
(*                                                                         *)
(* Prices, ATR and P&L are floats in the code; here they are integers on a *)
(* grid.  The ATR multiples 1.0, 1.2 and 1.5 are compared exactly, as      *)
(* tenths (10 * mfe >= 12 * atr).  A Python dict is a function whose       *)
(* DOMAIN is the set of keys present; None and the empty dict are both     *)
(* falsy and are the empty function.                                       *)
(***************************************************************************)
EXTENDS Integers, Sequences, FiniteSets, TLC

VARIABLES
    ctx,        \* a stand-alone ActiveTradeContext object
    args,       \* the arguments of the latest ActiveTradeContext.update call
    last,       \* the dict returned by the latest update call
    tick,       \* flips at every update call, so that no call is a stuttering step
    be_due,     \* history: some call so far was no stop-hit and had excursion >= 1.0 ATR
    pe_due,     \* history: some call so far was no stop-hit and had excursion >= 1.2 ATR
    partials,   \* history: the number of calls so far that returned a partial exit
    exited      \* history: some call so far returned EXIT_ALL

lifeVars == <<ctx, args, last, tick, be_due, pe_due, partials, exited>>

VARIABLES
    today,      \* the local calendar date, as a day number
    gov,        \* which risk governor the caller drives: "DailyRiskMonitor" or "RiskEngine"
    drm,        \* the DailyRiskMonitor object
    engine,     \* the RiskEngine object: its limits and the day its Redis keys name
    redis,      \* the shared Redis store: key -> value, for the keys that exist
    risk_ret,   \* what the latest governor call returned: can_trade's pair, or None
    rtick,      \* flips at every can_trade / record_trade call
    day_pnl,    \* history: the sum of the P&L recorded so far on the calendar day
    day_trades, \* history: the number of record_trade calls made so far on the calendar day
    breach,     \* history: a record_trade of this calendar day brought day_pnl to <= -max_loss
    records     \* history: the number of record_trade calls made

riskVars == <<today, gov, drm, engine, redis, risk_ret, rtick, day_pnl, day_trades, breach, records>>

VARIABLES
    is_active,      \* UserTrader.is_active
    bg_tasks,       \* UserTrader.bg_tasks: the list of background tasks
    active_trade,   \* UserTrader.active_trade: None or an ActiveTradeContext
    paper_trading,  \* OrderExecutionService.paper_trading of the session
    entry_orders,   \* broker side: the signals of the accepted ENTRY orders no context tracks
    db_trades,      \* db.trades: trade id -> the document stored
    opened,         \* the number of contexts created so far (the next trade id is opened + 1)
    ev,             \* the collaborator calls the latest handler call made, in order
    raised,         \* the exception the latest handler call raised to its caller, or None
    call            \* the latest handler call: its name, a bit that flips at every call, and
                    \* for on_market_data Some(whether the feed carried a candle)

sessVars == <<is_active, bg_tasks, active_trade, paper_trading, entry_orders,
              db_trades, opened, ev, raised, call>>

VARIABLES
    pc,         \* per session: the store command its record_trade call issues next
    pnl_arg,    \* per session: the pnl argument of its record_trade call
    new_pnl,    \* per session: the local new_pnl of its record_trade call
    ncalls,     \* history: the number of record_trade calls started
    sum_pnl,    \* history: the sum of the pnl arguments of the calls started
    overlapped  \* history: some call started while another session's call was under way

concVars == <<pc, pnl_arg, new_pnl, ncalls, sum_pnl, overlapped>>

VARIABLES
    validator,  \* the AIValidator object
    vpc,        \* where its validate_signal call is: "idle", "to_thread" (awaiting) or "returned"
    oracle,     \* what the oracle did in the call under way or last made, None before it acts
    approve,    \* the (is_approved, reason) pair the latest call returned, None while none has
    verdicts    \* history: is_approved of every call returned so far

valVars == <<validator, vpc, oracle, approve, verdicts>>

VARIABLES
    candle_store,            \* candle_store[symbol] of the one symbol analysed
    previous_signals_cache,  \* previous_signals_cache[symbol], None before the first analysis
    virtual_trades,          \* the documents of db.virtual_trades, in insertion order
    live_orders,             \* the tags of the live orders the broker accepted, in order
    config,                  \* the config argument analyze_trend is called with
    analysis,                \* the latest analyze_trend call: what its gate saw
    repeats,                 \* the latest call: the arriving candles whose timestamp was stored
    strike                   \* the latest select_strike_rate call: its arguments and its result

trendVars == <<candle_store, previous_signals_cache, virtual_trades, live_orders, config,
               analysis, repeats, strike>>

VARIABLES
    states,      \* TrendAnalyzer.states: instrument -> MarketState
    now,         \* the wall clock: the calendar day and the minute of the session
    emitted,     \* what the latest process_tick call returned
    trace,       \* the latest process_tick call: the steps of the pipeline it ran, in order
    mcall,       \* the latest operation on the analyzer: its name, its instrument, a bit
                 \* that flips at every operation
    nticks,      \* the number of process_tick calls so far
    nrefresh     \* the number of iterations of update_option_chain_loop so far

mktVars == <<states, now, emitted, trace, mcall, nticks, nrefresh>>

VARIABLES
    tasks,       \* the on_market_data callbacks the event loop holds: task -> frame
    placed,      \* history: the tags of the orders the broker was sent, in order
    nrecorded,   \* history: the number of record_trade calls made for exits
    ntasks       \* history: the number of callbacks on_message has scheduled

taskVars == <<tasks, placed, nrecorded, ntasks>>

VARIABLES
    active_traders,  \* TradingManager.active_traders: user id -> UserTrader
    created,         \* the number of UserTrader objects constructed so far
    command          \* the latest command handled, with a bit that flips at every command

mgrVars == <<active_traders, created, command>>

vars == <<lifeVars, riskVars, sessVars, concVars, valVars, trendVars, mktVars, taskVars, mgrVars>>

\* None.  An Optional number or string is None or Some(value).
None == <<>>

Some(value) == <<value>>

EmptyDict == [k \in {} |-> 0]

(***************************************************************************)
(* app/models/trade.py                                                     *)
(***************************************************************************)
CALL == "CALL"

PUT == "PUT"

TradeType == {CALL, PUT}

\* VirtualTrade(...): the fields the lifecycle reads or writes.
VirtualTrade(symbol, tradeType, entryPrice, stopLoss, targetPrice, quantity, status) ==
    [ symbol      |-> symbol,
      tradeType   |-> tradeType,
      entryPrice  |-> entryPrice,
      targetPrice |-> targetPrice,
      stopLoss    |-> stopLoss,
      quantity    |-> quantity,
      status      |-> status,
      exitPrice   |-> None,
      pnl         |-> None ]

(***************************************************************************)
(* app/services/trade_lifecycle_manager.py : ActiveTradeContext            *)
(***************************************************************************)
\* The ATR multiples of the three lifecycle steps, in tenths.
BE_ATR_X10 == 10

PARTIAL_ATR_X10 == 12

TRAIL_ATR_X10 == 15

\* actions["partial_exit"] = 0.5, in percent.
PARTIAL_EXIT_PCT == 50

\* ActiveTradeContext.__init__(self, trade, atr, sl, target)
ActiveTradeContext(trade, atr, sl, target) ==
    [ trade             |-> trade,
      atr               |-> atr,
      current_sl        |-> sl,
      target            |-> target,
      highest_mfe       |-> 0,
      is_partial_booked |-> FALSE,
      be_moved          |-> FALSE,
      trailing_active   |-> FALSE,
      entry_price       |-> trade.entryPrice ]

\* HitSL with the comparisons strict: a price exactly at the stop is no hit.
HitSL_Strict(c, current_price) ==
    IF c.trade.tradeType = CALL
    THEN current_price < c.current_sl
    ELSE current_price > c.current_sl

\* "0. Check Hit SL": the condition of the early return.
HitSL(c, current_price) ==
    IF c.trade.tradeType = CALL
    THEN current_price <= c.current_sl
    ELSE current_price >= c.current_sl

\* "Calculate MFE (Points in favor)"
Mfe(c, current_price) ==
    IF c.trade.tradeType = CALL
    THEN current_price - c.entry_price
    ELSE c.entry_price - current_price

\* TrackMfe storing the excursion of the call, whatever the stored one.
TrackMfe_Last(c, mfe) ==
    [c EXCEPT !.highest_mfe = mfe]

\* The context after the MFE bookkeeping: highest_mfe only ever rises.
TrackMfe(c, mfe) ==
    IF mfe > c.highest_mfe THEN [c EXCEPT !.highest_mfe = mfe] ELSE c

\* BreakEvenStep without its be_moved guard.
BreakEvenStep_Unflagged(c, acts, mfe) ==
    IF 10 * mfe >= 10 * c.atr
    THEN << [c EXCEPT !.current_sl = c.entry_price, !.be_moved = TRUE],
            ("update_sl" :> c.entry_price) @@ ("log" :> "BE") @@ acts >>
    ELSE << c, acts >>

\* "1. Break-Even Logic (At 1.0 ATR)": <<context, actions>> after the step.
BreakEvenStep(c, acts, mfe) ==
    IF ~c.be_moved /\ 10 * mfe >= BE_ATR_X10 * c.atr
    THEN << [c EXCEPT !.current_sl = c.entry_price, !.be_moved = TRUE],
            ("update_sl" :> c.entry_price) @@ ("log" :> "BE") @@ acts >>
    ELSE << c, acts >>

\* PartialExitStep without its is_partial_booked guard.
PartialExitStep_Unflagged(c, acts, mfe) ==
    IF 10 * mfe >= 12 * c.atr
    THEN << [c EXCEPT !.is_partial_booked = TRUE],
            ("partial_exit" :> 50) @@ ("log" :> "PARTIAL") @@ acts >>
    ELSE << c, acts >>

\* "2. Partial Exit (At 1.2 ATR)"
PartialExitStep(c, acts, mfe) ==
    IF ~c.is_partial_booked /\ 10 * mfe >= PARTIAL_ATR_X10 * c.atr
    THEN << [c EXCEPT !.is_partial_booked = TRUE],
            ("partial_exit" :> PARTIAL_EXIT_PCT) @@ ("log" :> "PARTIAL") @@ acts >>
    ELSE << c, acts >>

\* "3. Trailing Stop (Starts at 1.5 ATR)": the activation of the trail.
\* TrailingActivation assigning the comparison instead of setting the flag.
TrailingActivation_Assigned(c, mfe) ==
    [c EXCEPT !.trailing_active = (10 * mfe >= TRAIL_ATR_X10 * c.atr)]

\* "if mfe >= (1.5 * self.atr): self.trailing_active = True"
TrailingActivation(c, mfe) ==
    IF 10 * mfe >= TRAIL_ATR_X10 * c.atr
    THEN [c EXCEPT !.trailing_active = TRUE]
    ELSE c

\* TrailNewSl without the "never move SL down" comparison.
TrailNewSl_Unguarded(c, high, low) ==
    IF c.trade.tradeType = CALL THEN low ELSE high

\* new_sl of the trailing block: the candle low (CALL) or high (PUT), taken
\* only when it is on the favourable side of the current stop.
TrailNewSl(c, high, low) ==
    IF c.trade.tradeType = CALL
    THEN IF low > c.current_sl THEN low ELSE c.current_sl
    ELSE IF high < c.current_sl THEN high ELSE c.current_sl

\* TrailingStep without the "if new_sl != self.current_sl:" test.
TrailingStep_Unconditional(c, acts, high, low) ==
    IF c.trailing_active
    THEN << [c EXCEPT !.current_sl = TrailNewSl(c, high, low)],
            ("update_sl" :> TrailNewSl(c, high, low)) @@ ("log" :> "TRAIL") @@ acts >>
    ELSE << c, acts >>

\* "if self.trailing_active:" ... "if new_sl != self.current_sl:"
TrailingStep(c, acts, high, low) ==
    IF c.trailing_active /\ TrailNewSl(c, high, low) # c.current_sl
    THEN << [c EXCEPT !.current_sl = TrailNewSl(c, high, low)],
            ("update_sl" :> TrailNewSl(c, high, low)) @@ ("log" :> "TRAIL") @@ acts >>
    ELSE << c, acts >>

\* ActiveTradeContext.update(current_price, high, low): <<context, returned dict>>.
update(c, current_price, high, low) ==
    IF HitSL(c, current_price)
    THEN << c, [action |-> "EXIT_ALL", reason |-> "STOP_LOSS", price |-> c.current_sl] >>
    ELSE LET mfe == Mfe(c, current_price)
             s0  == TrackMfe(c, mfe)
             s1  == BreakEvenStep(s0, EmptyDict, mfe)
             s2  == PartialExitStep(s1[1], s1[2], mfe)
             s3  == TrailingActivation(s2[1], mfe)
         IN  TrailingStep(s3, s2[2], high, low)

(***************************************************************************)
(* app/services/trade_lifecycle_manager.py : DailyRiskMonitor              *)
(***************************************************************************)
\* DailyRiskMonitor.__init__(max_trades, max_loss_amt), constructed on day d.
DailyRiskMonitor(max_trades, max_loss_amt, d) ==
    [ max_trades        |-> max_trades,
      max_loss_amt      |-> max_loss_amt,
      current_date      |-> d,
      trades_taken      |-> 0,
      daily_pnl         |-> 0,
      is_locked         |-> FALSE,
      last_trade_result |-> "WIN" ]

\* check_new_day(): the monitor after the call made on day d.
check_new_day(m, d) ==
    IF d > m.current_date
    THEN [m EXCEPT !.current_date = d, !.trades_taken = 0, !.daily_pnl = 0, !.is_locked = FALSE]
    ELSE m

\* The three checks of DailyRiskMonitor.can_trade, on the monitor after check_new_day.
drm_verdict(m) ==
    IF m.is_locked THEN [ok |-> FALSE, reason |-> "Locked"]
    ELSE IF m.trades_taken >= m.max_trades THEN [ok |-> FALSE, reason |-> "Max Trades Reached"]
    ELSE IF m.daily_pnl <= -m.max_loss_amt THEN [ok |-> FALSE, reason |-> "Max Daily Loss Reached"]
    ELSE [ok |-> TRUE, reason |-> "OK"]

\* DailyRiskMonitor.can_trade() called on day d: <<monitor, returned pair>>.
drm_can_trade(m, d) == << check_new_day(m, d), drm_verdict(check_new_day(m, d)) >>

\* DailyRiskMonitor.record_trade(pnl): the monitor after the call.
drm_record_trade(m, pnl) ==
    LET total == m.daily_pnl + pnl
    IN  [m EXCEPT !.trades_taken = m.trades_taken + 1,
                  !.daily_pnl = total,
                  !.last_trade_result = IF pnl < 0 THEN "LOSS" ELSE "WIN",
                  !.is_locked = IF total <= -m.max_loss_amt THEN TRUE ELSE m.is_locked]

(***************************************************************************)
(* app/services/redis_manager.py, app/services/risk_engine.py              *)
(* The counter store is external; GET, SET, INCR and INCRBYFLOAT are each  *)
(* one atomic command of the Redis server.                                 *)
(***************************************************************************)
\* GET: an Optional value.
redis_get(store, key) == IF key \in DOMAIN store THEN Some(store[key]) ELSE None

redis_set(store, key, value) == (key :> value) @@ store

redis_incr(store, key) ==
    (key :> (IF key \in DOMAIN store THEN store[key] + 1 ELSE 1)) @@ store

\* INCRBYFLOAT with the value added in place of the value stored before.
redis_incrbyfloat_Overwrite(store, key, amount) == (key :> amount) @@ store

redis_incrbyfloat(store, key, amount) ==
    (key :> (IF key \in DOMAIN store THEN store[key] + amount ELSE amount)) @@ store

\* RiskEngine.__init__: the keys carry the date of construction, today_str.
RiskEngine(user_id, max_trades, max_loss_amt, d) ==
    [ user_id      |-> user_id,
      max_trades   |-> max_trades,
      max_loss_amt |-> max_loss_amt,
      KEY_TRADES   |-> <<"risk", user_id, d, "trades">>,
      KEY_PNL      |-> <<"risk", user_id, d, "pnl">>,
      KEY_LOCKED   |-> <<"risk", user_id, d, "locked">> ]

\* "x or default": the default for None (a missing key).
OrDefault(value, default) == IF value = None THEN default ELSE value[1]

\* RiskEngine.get_stats()
get_stats(e, store) ==
    [ trades |-> OrDefault(redis_get(store, e.KEY_TRADES), 0),
      pnl    |-> OrDefault(redis_get(store, e.KEY_PNL), 0),
      locked |-> OrDefault(redis_get(store, e.KEY_LOCKED), "0") = "1" ]

\* RiskEngine.lock_trading(): the store after SET locked "1".
lock_trading(e, store) == redis_set(store, e.KEY_LOCKED, "1")

\* RiskEngine.can_trade() run without interruption: <<store, returned pair>>.
can_trade(e, store) ==
    LET stats == get_stats(e, store)
    IN  IF stats.locked THEN << store, [ok |-> FALSE, reason |-> "Locked"] >>
        ELSE IF stats.trades >= e.max_trades
             THEN << store, [ok |-> FALSE, reason |-> "Max Trades Reached"] >>
        ELSE IF stats.pnl <= -e.max_loss_amt
             THEN << lock_trading(e, store), [ok |-> FALSE, reason |-> "Max Daily Loss Reached"] >>
        ELSE << store, [ok |-> TRUE, reason |-> "OK"] >>

\* The end of record_trade: "Check Stop Loss immediately".
lock_if_breached(e, store) ==
    IF redis_get(store, e.KEY_PNL)[1] <= -e.max_loss_amt THEN lock_trading(e, store) ELSE store

\* RiskEngine.record_trade(pnl) run without interruption: the store after it.
record_trade(e, store, pnl) ==
    lock_if_breached(e, redis_incrbyfloat(redis_incr(store, e.KEY_TRADES), e.KEY_PNL, pnl))

\* A record_trade that updates the P&L by GET, add, SET.
record_trade_step_ReadModifyWrite(e, store, f) ==
    CASE f.pc = "incr" ->
            << redis_incr(store, e.KEY_TRADES), [f EXCEPT !.pc = "incrbyfloat"] >>
      [] f.pc = "incrbyfloat" ->
            << store, [f EXCEPT !.new_pnl = OrDefault(redis_get(store, e.KEY_PNL), 0),
                                !.pc = "set"] >>
      [] f.pc = "set" ->
            << redis_set(store, e.KEY_PNL, f.new_pnl + f.pnl), [f EXCEPT !.pc = "get"] >>
      [] f.pc = "get" ->
            LET v == redis_get(store, e.KEY_PNL)[1]
            IN  << store, [f EXCEPT !.new_pnl = v,
                                    !.pc = IF v <= -e.max_loss_amt THEN "lock" ELSE "idle"] >>
      [] f.pc = "lock" ->
            << lock_trading(e, store), [f EXCEPT !.pc = "idle"] >>

\* RiskEngine.record_trade(pnl), one store command at a time.  f is the frame
\* of the call: [pc, pnl, new_pnl], pc naming the command issued next;
\* the result is <<store, frame>> after that command.
record_trade_step(e, store, f) ==
    CASE f.pc = "incr" ->
            << redis_incr(store, e.KEY_TRADES), [f EXCEPT !.pc = "incrbyfloat"] >>
      [] f.pc = "incrbyfloat" ->
            << redis_incrbyfloat(store, e.KEY_PNL, f.pnl), [f EXCEPT !.pc = "get"] >>
      [] f.pc = "get" ->
            LET v == redis_get(store, e.KEY_PNL)[1]
            IN  << store, [f EXCEPT !.new_pnl = v,
                                    !.pc = IF v <= -e.max_loss_amt THEN "lock" ELSE "idle"] >>
      [] f.pc = "lock" ->
            << lock_trading(e, store), [f EXCEPT !.pc = "idle"] >>

(***************************************************************************)
(* Inputs                                                                  *)
(***************************************************************************)
\* Signals as handed to handle_signal / used to build a trade: entry 10,
\* ATR 4, a stop 2 points on the losing side.
Signals ==
    { [signal |-> "BUY_CALL", entry_price |-> 10, stop_loss |-> 8,  target |-> 16, atr |-> 4],
      [signal |-> "BUY_PUT",  entry_price |-> 10, stop_loss |-> 12, target |-> 4,  atr |-> 4] }

SignalTradeType(sig) == IF sig.signal = "BUY_CALL" THEN CALL ELSE PUT

\* Last traded prices: on both sides of the entry, each threshold of either
\* direction (BE at +-4, partial at +-5, trailing at +-6) among them.
PriceSet == {4, 5, 6, 8, 10, 12, 14, 15, 16}

\* Candle highs and lows, independent of the last traded price.
CandleSet == {7, 9, 11, 13}

\* "qty = 15  # Freeze qty"
FREEZE_QTY == 15

TradeOfSignal(sig, status) ==
    VirtualTrade("OPT", SignalTradeType(sig), sig.entry_price, sig.stop_loss,
                 sig.target, FREEZE_QTY, status)

(***************************************************************************)
(* A context driven by a caller, one update call at a time.                *)
(***************************************************************************)
\* The largest value the history counters count to.
MaxCount == 2

\* The claims' own reading of an update call, from the arguments and the
\* context at the start of the call.
Through(c, price) ==
    \/ c.trade.tradeType = CALL /\ price <= c.current_sl
    \/ c.trade.tradeType = PUT  /\ price >= c.current_sl

Excursion(c, price) ==
    IF c.trade.tradeType = CALL THEN price - c.entry_price ELSE c.entry_price - price

\* The call is no stop-hit and its excursion is at least x10/10 of the ATR.
Reaches(c, price, x10) == ~Through(c, price) /\ 10 * Excursion(c, price) >= x10 * c.atr

\* A stop on the winning side of the entry, beyond every threshold: the
\* constructor takes any stop.
FarStop(sig) == IF sig.signal = "BUY_CALL" THEN 15 ELSE 5

\* A context as constructed from a signal, with the given stop.
InitContext(sig, sl) ==
    /\ ctx = ActiveTradeContext(TradeOfSignal(sig, "OPEN"), sig.atr, sl, sig.target)
    /\ args = None
    /\ last = None
    /\ tick = FALSE
    /\ be_due = FALSE
    /\ pe_due = FALSE
    /\ partials = 0
    /\ exited = FALSE

\* symbol_index of UserTrader.start and update_option_chain_loop, and one
\* more instrument of the feed.
INDEX == "NSE_INDEX|Nifty Bank"

NIFTY == "NSE_INDEX|Nifty 50"

Instruments == {INDEX, NIFTY}

\* The MarketState of an instrument no candle has reached: an empty window,
\* zero VWAP accumulators with no reset date (0: before every day), an
\* opening range of no day, no market context, an idle cooldown lock.
MarketState ==
    [ candles            |-> <<>>,
      vwap_cum_vol_price |-> 0,
      vwap_cum_vol       |-> 0,
      vwap_reset_date    |-> 0,
      orb                |-> [high |-> 0, low |-> 0, finalized |-> FALSE, date |-> 0],
      pcr                |-> 0,
      oi_history         |-> <<>>,
      lock               |-> [locked |-> FALSE, time |-> 0, signal |-> ""] ]

\* The variables of the event loop while it holds no callback.
TaskIdle ==
    /\ tasks = <<>>
    /\ placed = <<>>
    /\ nrecorded = 0
    /\ ntasks = 0

\* The variables of the TradingManager while none is used.
MgrIdle ==
    /\ active_traders = EmptyDict
    /\ created = 0
    /\ command = [action |-> "", user_id |-> "", data |-> EmptyDict,
                  raised |-> None, removed |-> None, bit |-> FALSE]

\* The variables of the analyzer while nothing has used it.
MktIdle ==
    /\ states = [i \in Instruments |-> MarketState]
    /\ now = [day |-> 1, minute |-> 0]
    /\ emitted = None
    /\ trace = <<>>
    /\ mcall = [name |-> "", instrument |-> "", bit |-> FALSE]
    /\ nticks = 0
    /\ nrefresh = 0

\* The variables of the session while no session runs.
SessIdle ==
    /\ is_active = FALSE
    /\ bg_tasks = <<>>
    /\ active_trade = None
    /\ paper_trading = TRUE
    /\ entry_orders = <<>>
    /\ db_trades = EmptyDict
    /\ opened = 0
    /\ ev = <<>>
    /\ raised = None
    /\ call = [name |-> "", arg |-> None, bit |-> FALSE]

\* The variables of the concurrent record_trade calls while none is made.
ConcIdle ==
    /\ pc = EmptyDict
    /\ pnl_arg = EmptyDict
    /\ new_pnl = EmptyDict
    /\ ncalls = 0
    /\ sum_pnl = 0
    /\ overlapped = FALSE

\* The variables of analyze_trend while it is not called.
TrendIdle ==
    /\ candle_store = <<>>
    /\ previous_signals_cache = None
    /\ virtual_trades = <<>>
    /\ live_orders = <<>>
    /\ config = None
    /\ analysis = None
    /\ repeats = <<>>
    /\ strike = None

\* The variables of the advisory oracle's validator while none is used.
ValIdle ==
    /\ validator = None
    /\ vpc = "idle"
    /\ oracle = None
    /\ approve = None
    /\ verdicts = <<>>

\* The variables of the risk governor while no governor is driven.
RiskIdle ==
    /\ today = 0
    /\ gov = None
    /\ drm = None
    /\ engine = None
    /\ redis = EmptyDict
    /\ risk_ret = None
    /\ rtick = FALSE
    /\ day_pnl = 0
    /\ day_trades = 0
    /\ breach = FALSE
    /\ records = 0

\* The stop is the signal's stop, on the losing side of the entry.
InitLife ==
    /\ RiskIdle
    /\ ValIdle
    /\ TrendIdle
    /\ MktIdle
    /\ TaskIdle
    /\ MgrIdle
    /\ SessIdle
    /\ ConcIdle
    /\ \E sig \in Signals : InitContext(sig, sig.stop_loss)

\* The stop is the signal's or one on the winning side.
InitLifeAny ==
    /\ RiskIdle
    /\ ValIdle
    /\ TrendIdle
    /\ MktIdle
    /\ TaskIdle
    /\ MgrIdle
    /\ SessIdle
    /\ ConcIdle
    /\ \E sig \in Signals : \E sl \in {sig.stop_loss, FarStop(sig)} : InitContext(sig, sl)

Update(current_price, high, low) ==
    /\ ctx' = update(ctx, current_price, high, low)[1]
    /\ last' = update(ctx, current_price, high, low)[2]
    /\ args' = [current_price |-> current_price, high |-> high, low |-> low]
    /\ tick' = ~tick
    /\ be_due' = (be_due \/ Reaches(ctx, current_price, 10))
    /\ pe_due' = (pe_due \/ Reaches(ctx, current_price, 12))
    /\ partials' = IF "partial_exit" \in DOMAIN last' /\ partials < MaxCount
                   THEN partials + 1 ELSE partials
    /\ exited' = (exited \/ ("action" \in DOMAIN last' /\ last'.action = "EXIT_ALL"))
    /\ UNCHANGED <<riskVars, sessVars, concVars, valVars, trendVars, mktVars, taskVars, mgrVars>>

NextLife == \E p \in PriceSet, h \in CandleSet, l \in CandleSet : Update(p, h, l)

SpecLife == InitLife /\ [][NextLife]_vars

SpecLifeAny == InitLifeAny /\ [][NextLife]_vars

(***************************************************************************)
(* A risk governor driven by one caller, one call at a time, over several  *)
(* calendar days.                                                          *)
(***************************************************************************)
\* The last calendar day of a run (the first is day 0).
MaxDay == 1

\* The largest number of record_trade calls of a run.
MaxRecords == 3

\* The limits a governor is constructed with: those of test_daily_risk, and
\* the default max_trades with the same loss limit.
RiskConfigs == { [max_trades |-> 2, max_loss_amt |-> 100],
                 [max_trades |-> 5, max_loss_amt |-> 100] }

\* The limits of the governor that is driven.
Limits == IF gov = "DailyRiskMonitor" THEN drm ELSE engine

\* Realized P&L of a closed trade.
PnlSet == {-100, -50, 60}

USER == "u1"

\* The variables of the stand-alone context while no context is driven.
LifeIdle ==
    /\ ctx = None
    /\ args = None
    /\ last = None
    /\ tick = FALSE
    /\ be_due = FALSE
    /\ pe_due = FALSE
    /\ partials = 0
    /\ exited = FALSE

InitRisk ==
    /\ LifeIdle
    /\ ValIdle
    /\ TrendIdle
    /\ MktIdle
    /\ TaskIdle
    /\ MgrIdle
    /\ SessIdle
    /\ ConcIdle
    /\ today = 0
    /\ gov \in {"DailyRiskMonitor", "RiskEngine"}
    /\ \E cfg \in RiskConfigs :
          /\ drm = IF gov = "DailyRiskMonitor"
                   THEN DailyRiskMonitor(cfg.max_trades, cfg.max_loss_amt, 0)
                   ELSE None
          /\ engine = IF gov = "RiskEngine"
                      THEN RiskEngine(USER, cfg.max_trades, cfg.max_loss_amt, 0)
                      ELSE None
    /\ redis = EmptyDict
    /\ risk_ret = None
    /\ rtick = FALSE
    /\ day_pnl = 0
    /\ day_trades = 0
    /\ breach = FALSE
    /\ records = 0

\* The history of the calendar day after a record_trade(pnl).
Recorded(pnl) ==
    /\ day_pnl' = day_pnl + pnl
    /\ day_trades' = day_trades + 1
    /\ breach' = (breach \/ day_pnl + pnl <= -Limits.max_loss_amt)
    /\ records' = records + 1

\* The local date changes.
Midnight ==
    /\ today < MaxDay
    /\ today' = today + 1
    /\ day_pnl' = 0
    /\ day_trades' = 0
    /\ breach' = FALSE
    /\ UNCHANGED <<gov, drm, engine, redis, risk_ret, rtick, records>>
    /\ UNCHANGED <<lifeVars, sessVars, concVars, valVars, trendVars, mktVars, taskVars, mgrVars>>

DrmCanTrade ==
    /\ gov = "DailyRiskMonitor"
    /\ drm' = drm_can_trade(drm, today)[1]
    /\ risk_ret' = drm_can_trade(drm, today)[2]
    /\ rtick' = ~rtick
    /\ UNCHANGED <<today, gov, engine, redis, day_pnl, day_trades, breach, records>>
    /\ UNCHANGED <<lifeVars, sessVars, concVars, valVars, trendVars, mktVars, taskVars, mgrVars>>

DrmRecordTrade(pnl) ==
    /\ gov = "DailyRiskMonitor"
    /\ records < MaxRecords
    /\ drm' = drm_record_trade(drm, pnl)
    /\ risk_ret' = None
    /\ rtick' = ~rtick
    /\ Recorded(pnl)
    /\ UNCHANGED <<today, gov, engine, redis>>
    /\ UNCHANGED <<lifeVars, sessVars, concVars, valVars, trendVars, mktVars, taskVars, mgrVars>>

EngineCanTrade ==
    /\ gov = "RiskEngine"
    /\ redis' = can_trade(engine, redis)[1]
    /\ risk_ret' = can_trade(engine, redis)[2]
    /\ rtick' = ~rtick
    /\ UNCHANGED <<today, gov, drm, engine, day_pnl, day_trades, breach, records>>
    /\ UNCHANGED <<lifeVars, sessVars, concVars, valVars, trendVars, mktVars, taskVars, mgrVars>>

EngineRecordTrade(pnl) ==
    /\ gov = "RiskEngine"
    /\ records < MaxRecords
    /\ redis' = record_trade(engine, redis, pnl)
    /\ risk_ret' = None
    /\ rtick' = ~rtick
    /\ Recorded(pnl)
    /\ UNCHANGED <<today, gov, drm, engine>>
    /\ UNCHANGED <<lifeVars, sessVars, concVars, valVars, trendVars, mktVars, taskVars, mgrVars>>

NextRisk ==
    \/ Midnight
    \/ DrmCanTrade
    \/ \E pnl \in PnlSet : DrmRecordTrade(pnl)
    \/ EngineCanTrade
    \/ \E pnl \in PnlSet : EngineRecordTrade(pnl)

SpecRisk == InitRisk /\ [][NextRisk]_vars

(***************************************************************************)
(* app/services/order_execution_service.py, app/services/trading_manager.py *)
(* The handlers of UserTrader are operators on the part of the session a   *)
(* handler can change:                                                     *)
(*   [active_trade, redis, entry_orders, db_trades, ev, raised]            *)
(***************************************************************************)
\* RiskEngine(user_id, max_trades=5, max_loss_amt=2500)
MAX_TRADES == 5

MAX_LOSS_AMT == 2500

\* OrderExecutionService.place_order: the status of the dict returned.  Paper
\* trading always succeeds; live, the broker accepts the order or the call
\* returns an error dict.
place_order(paper, accepted) ==
    IF paper THEN "success" ELSE IF accepted THEN "success" ELSE "error"

\* The parameters of ActiveTradeContext.__init__ after self; none has a default.
InitParams == <<"trade", "atr", "sl", "target">>

\* The keyword arguments of the call ActiveTradeContext(v_trade, atr=, sl=,
\* target=, entry_order_id=) in handle_signal.
InitKeywords == {"atr", "sl", "target", "entry_order_id"}

\* A Python call with npos positional arguments and the keywords kw binds to
\* params iff the keywords are exactly the parameters left after the
\* positional ones; otherwise it raises TypeError.
Binds(params, npos, kw) ==
    /\ npos <= Len(params)
    /\ kw = {params[i] : i \in (npos + 1)..Len(params)}

\* VirtualTrade.id
WithId(trade, id) == ("id" :> id) @@ trade

\* The session after a call to a collaborator.
Did(s, op, arg) == [s EXCEPT !.ev = Append(@, [op |-> op, arg |-> arg])]

\* handle_signal, "3. Create Virtual Trade Wrapper" to the end.  The order
\* that was accepted is tracked by the context once the context exists.
open_trade(s, signal, id) ==
    LET v_trade == WithId(VirtualTrade("OPT", SignalTradeType(signal), signal.entry_price,
                                       signal.stop_loss, signal.target, FREEZE_QTY,
                                       "SUBMITTED"), id)
        s1 == Did(s, "ActiveTradeContext", <<v_trade.status>>)
    IN  IF Binds(InitParams, 1, InitKeywords)
        THEN Did([s1 EXCEPT !.active_trade = ActiveTradeContext(v_trade, signal.atr,
                                                 signal.stop_loss, signal.target),
                            !.entry_orders = SubSeq(@, 1, Len(@) - 1),
                            !.db_trades = (id :> v_trade) @@ @],
                 "db.trades.insert_one", <<id>>)
        ELSE [s1 EXCEPT !.raised = Some("TypeError")]

\* An entry that checks the order's status only after the trade is opened.
handle_signal_OpenFirst(s, e, signal, status, id) ==
    IF s.active_trade # None THEN s
    ELSE LET r  == can_trade(e, s.redis)
             s1 == Did([s EXCEPT !.redis = r[1]], "risk_engine.can_trade", <<>>)
             s2 == Did(s1, "execution_service.place_order",
                       <<"BUY", FREEZE_QTY, "ENTRY", status>>)
         IN  IF ~r[2].ok THEN s1
             ELSE open_trade([s2 EXCEPT !.entry_orders = Append(@, signal)], signal, id)

\* An entry that does not look at active_trade.
handle_signal_Unguarded(s, e, signal, status, id) ==
    LET r  == can_trade(e, s.redis)
        s1 == Did([s EXCEPT !.redis = r[1]], "risk_engine.can_trade", <<>>)
        s2 == Did(s1, "execution_service.place_order",
                  <<"BUY", FREEZE_QTY, "ENTRY", status>>)
    IN  IF ~r[2].ok THEN s1
        ELSE IF status = "error" THEN s2
        ELSE open_trade([s2 EXCEPT !.entry_orders = Append(@, signal)], signal, id)

\* An entry that does not look at what can_trade returned.
handle_signal_Ungated(s, e, signal, status, id) ==
    IF s.active_trade # None THEN s
    ELSE LET r  == can_trade(e, s.redis)
             s1 == Did([s EXCEPT !.redis = r[1]], "risk_engine.can_trade", <<>>)
             s2 == Did(s1, "execution_service.place_order",
                       <<"BUY", FREEZE_QTY, "ENTRY", status>>)
         IN  IF status = "error" THEN s2
             ELSE open_trade([s2 EXCEPT !.entry_orders = Append(@, signal)], signal, id)

\* UserTrader.handle_signal(signal), with the status place_order returns and
\* the id a new VirtualTrade gets.
handle_signal(s, e, signal, status, id) ==
    IF s.active_trade # None THEN s
    ELSE LET r  == can_trade(e, s.redis)
             s1 == Did([s EXCEPT !.redis = r[1]], "risk_engine.can_trade", <<>>)
             s2 == Did(s1, "execution_service.place_order",
                       <<"BUY", FREEZE_QTY, "ENTRY", status>>)
         IN  IF ~r[2].ok THEN s1
             ELSE IF status = "error" THEN s2
             ELSE open_trade([s2 EXCEPT !.entry_orders = Append(@, signal)], signal, id)

\* A close_trade that takes the P&L of a PUT as that of a CALL.
close_trade_Unsigned(s, e, actions, status) ==
    LET c       == s.active_trade
        price   == actions.price
        pnl_amt == (price - c.entry_price) * c.trade.quantity
        closed  == [c.trade EXCEPT !.status = "CLOSED", !.exitPrice = Some(price),
                                   !.pnl = Some(pnl_amt)]
        s1 == Did(s, "execution_service.place_order",
                  <<"SELL", c.trade.quantity, "EXIT", status>>)
        s2 == Did([s1 EXCEPT !.redis = record_trade(e, @, pnl_amt)],
                  "risk_engine.record_trade", <<pnl_amt>>)
        s3 == Did([s2 EXCEPT !.db_trades = (closed.id :> closed) @@ @],
                  "db.trades.update_one", <<closed.id>>)
    IN  [s3 EXCEPT !.active_trade = None]

\* on_market_data, 'if actions.get("action") == "EXIT_ALL"': the exit order
\* (its status is not looked at), the P&L, the risk update, the persistence.
close_trade(s, e, actions, status) ==
    LET c       == s.active_trade
        price   == actions.price
        entry   == c.entry_price
        pnl     == IF c.trade.tradeType = CALL THEN price - entry ELSE entry - price
        pnl_amt == pnl * c.trade.quantity
        closed  == [c.trade EXCEPT !.status = "CLOSED", !.exitPrice = Some(price),
                                   !.pnl = Some(pnl_amt)]
        s1 == Did(s, "execution_service.place_order",
                  <<"SELL", c.trade.quantity, "EXIT", status>>)
        s2 == Did([s1 EXCEPT !.redis = record_trade(e, @, pnl_amt)],
                  "risk_engine.record_trade", <<pnl_amt>>)
        s3 == Did([s2 EXCEPT !.db_trades = (closed.id :> closed) @@ @],
                  "db.trades.update_one", <<closed.id>>)
    IN  [s3 EXCEPT !.active_trade = None]

\* The body of the "for instrument_key, feed in feeds.items()" loop of
\* on_market_data for one feed; result is what analyzer.process_tick returns
\* if it is called.  An exception of handle_signal leaves s.raised set.
process_feed(s, e, feed, result, status, id) ==
    IF feed.ltp = 0 THEN s
    ELSE IF s.active_trade # None /\ feed.candle # None
    THEN LET u  == update(s.active_trade, feed.ltp, feed.candle.high, feed.candle.low)
             s1 == Did([s EXCEPT !.active_trade = u[1]], "active_trade.update", <<feed.ltp>>)
         IN  IF "action" \in DOMAIN u[2] /\ u[2].action = "EXIT_ALL"
             THEN close_trade(s1, e, u[2], status)
             ELSE s1
    ELSE IF feed.is_index /\ feed.candle # None
    THEN LET s1 == Did(s, "analyzer.process_tick", <<>>)
             s2 == Did(s1, "db.signals.insert_one", <<result.signal>>)
         IN  IF result = None THEN s1
             ELSE IF result.signal \in {"BUY_CALL", "BUY_PUT"}
             THEN handle_signal(s2, e, result, status, id)
             ELSE s2
    ELSE s

\* The loop of on_market_data over the feeds of the message, in order, from
\* feed i on: an exception ends it, as the try statement encloses the loop.
RECURSIVE feeds_loop(_, _, _, _, _, _, _)
feeds_loop(s, e, feeds, results, status, id, i) ==
    IF i > Len(feeds) \/ s.raised # None THEN s
    ELSE feeds_loop(process_feed(s, e, feeds[i], results[i], status, id),
                    e, feeds, results, status, id, i + 1)

\* UserTrader.on_market_data(message): feeds are the feeds of the message and
\* results what analyzer.process_tick returns for each if it is called.  An
\* exception is caught and printed.
on_market_data(s, e, feeds, results, status, id) ==
    [feeds_loop(s, e, feeds, results, status, id, 1) EXCEPT !.raised = None]

\* A stop that also drops the trade being managed.
stop_DropTrade(t) ==
    IF ~t.is_active THEN t
    ELSE [t EXCEPT !.is_active = FALSE,
                   !.bg_tasks = <<>>,
                   !.active_trade = None,
                   !.ev = <<[op |-> "audit_log.log", arg |-> <<"TRADING_SESSION_STOP">>],
                            [op |-> "ws_client.stop", arg |-> <<>>]>>
                          \o [i \in 1..Len(t.bg_tasks) |->
                                [op |-> "task.cancel", arg |-> <<t.bg_tasks[i]>>]]
                          \o <<[op |-> "redis_manager.publish", arg |-> <<"STOPPED">>]>>]

\* UserTrader.stop() on t = [is_active, bg_tasks, active_trade, ev].
stop(t) ==
    IF ~t.is_active THEN t
    ELSE [t EXCEPT !.is_active = FALSE,
                   !.bg_tasks = <<>>,
                   !.ev = <<[op |-> "audit_log.log", arg |-> <<"TRADING_SESSION_STOP">>],
                            [op |-> "ws_client.stop", arg |-> <<>>]>>
                          \o [i \in 1..Len(t.bg_tasks) |->
                                [op |-> "task.cancel", arg |-> <<t.bg_tasks[i]>>]]
                          \o <<[op |-> "redis_manager.publish", arg |-> <<"STOPPED">>]>>]

\* UserTrader.start() on t = [is_active, bg_tasks, active_trade, ev].
start(t) ==
    IF t.is_active THEN t
    ELSE [t EXCEPT !.is_active = TRUE,
                   !.bg_tasks = t.bg_tasks \o <<"ws_task", "chain_task">>,
                   !.ev = <<[op |-> "audit_log.log", arg |-> <<"TRADING_SESSION_START">>],
                            [op |-> "redis_manager.publish", arg |-> <<"RUNNING">>]>>]

(***************************************************************************)
(* One UserTrader session whose handlers run one at a time, on one         *)
(* calendar day.                                                           *)
(***************************************************************************)
\* The most accepted ENTRY orders that no context tracks.
MaxPending == 1

\* The most contexts created in a run.
MaxOpened == 1

\* What earlier sessions of the user left in the store today: nothing yet,
\* one trade short of max_trades, max_trades reached, a loss one losing trade
\* short of the limit, a loss at the limit that another session has recorded
\* and not yet locked, and the lock.
EarlierToday ==
    { [trades |-> 0, pnl |-> 0,     locked |-> FALSE],
      [trades |-> 4, pnl |-> 15,    locked |-> FALSE],
      [trades |-> 5, pnl |-> 15,    locked |-> FALSE],
      [trades |-> 1, pnl |-> -2490, locked |-> FALSE],
      [trades |-> 1, pnl |-> -2500, locked |-> FALSE],
      [trades |-> 1, pnl |-> -2520, locked |-> TRUE] }

\* The store holding st under the keys of e; no key exists before the first trade.
Stored(e, st) ==
    IF st.trades = 0 THEN EmptyDict
    ELSE (e.KEY_TRADES :> st.trades) @@ (e.KEY_PNL :> st.pnl)
         @@ (IF st.locked THEN (e.KEY_LOCKED :> "1") ELSE EmptyDict)

\* The I1 candle of a feed, or None when the feed carries none.
SessCandles == {None, [high |-> 11, low |-> 11]}

\* One feed of a message: index or option instrument, last traded price
\* (0: none), candle.
Feeds == [is_index : BOOLEAN, ltp : {0, 8, 16}, candle : SessCandles]

\* What analyzer.process_tick returns: None, a result that is no entry, or
\* an entry signal.
AnalyzerResults ==
    {None, [signal |-> "NEUTRAL", entry_price |-> 10, stop_loss |-> 0, target |-> 0, atr |-> 0]}
    \cup Signals

InitSession ==
    /\ LifeIdle
    /\ ValIdle
    /\ TrendIdle
    /\ MktIdle
    /\ TaskIdle
    /\ MgrIdle
    /\ ConcIdle
    /\ today = 0
    /\ gov = "RiskEngine"
    /\ drm = None
    /\ engine = RiskEngine(USER, MAX_TRADES, MAX_LOSS_AMT, 0)
    /\ \E st \in EarlierToday : redis = Stored(engine, st)
    /\ risk_ret = None
    /\ rtick = FALSE
    /\ day_pnl = 0
    /\ day_trades = 0
    /\ breach = FALSE
    /\ records = 0
    /\ is_active = FALSE
    /\ bg_tasks = <<>>
    /\ active_trade = None
    /\ paper_trading \in BOOLEAN
    /\ entry_orders = <<>>
    /\ db_trades = EmptyDict
    /\ opened = 0
    /\ ev = <<>>
    /\ raised = None
    /\ call = [name |-> "", arg |-> None, bit |-> FALSE]

\* The part of the session handle_signal and on_market_data work on, before a call.
Session ==
    [ active_trade |-> active_trade,
      redis        |-> redis,
      entry_orders |-> entry_orders,
      db_trades    |-> db_trades,
      ev           |-> <<>>,
      raised       |-> None ]

\* The part of the session start and stop work on, before a call.
Runner ==
    [ is_active |-> is_active, bg_tasks |-> bg_tasks, active_trade |-> active_trade,
      ev |-> <<>> ]

Called(name, arg) == call' = [name |-> name, arg |-> arg, bit |-> ~call.bit]

\* The session after a handler call that leaves it as r.
Returned(r) ==
    /\ Len(r.entry_orders) <= MaxPending
    /\ active_trade' = r.active_trade
    /\ redis' = r.redis
    /\ entry_orders' = r.entry_orders
    /\ db_trades' = r.db_trades
    /\ ev' = r.ev
    /\ raised' = r.raised
    /\ opened' = IF active_trade = None /\ r.active_trade # None THEN opened + 1 ELSE opened
    /\ UNCHANGED <<is_active, bg_tasks, paper_trading>>
    /\ UNCHANGED <<today, gov, drm, engine, risk_ret, rtick, day_pnl, day_trades, breach, records>>
    /\ UNCHANGED <<lifeVars, concVars, valVars, trendVars, mktVars, taskVars, mgrVars>>

HandleSignal(signal, accepted) ==
    /\ Called("handle_signal", None)
    /\ Returned(handle_signal(Session, engine, signal,
                              place_order(paper_trading, accepted), opened + 1))

OnMarketData(feed, result, accepted) ==
    /\ Called("on_market_data", Some(feed.candle # None))
    /\ Returned(on_market_data(Session, engine, <<feed>>, <<result>>,
                               place_order(paper_trading, accepted), opened + 1))

\* The session after a start or stop call that leaves it as t.
Ran(t) ==
    /\ is_active' = t.is_active
    /\ bg_tasks' = t.bg_tasks
    /\ active_trade' = t.active_trade
    /\ ev' = t.ev
    /\ raised' = None
    /\ UNCHANGED <<paper_trading, entry_orders, db_trades, opened>>
    /\ UNCHANGED riskVars
    /\ UNCHANGED <<lifeVars, concVars, valVars, trendVars, mktVars, taskVars, mgrVars>>

Start ==
    /\ Called("start", None)
    /\ Ran(start(Runner))

Stop ==
    /\ Called("stop", None)
    /\ Ran(stop(Runner))

\* The execution collaborator confirms the fill of the oldest accepted ENTRY
\* order, and the context of its trade is created.
FillConfirmed ==
    /\ active_trade = None
    /\ entry_orders # <<>>
    /\ opened < MaxOpened
    /\ LET signal == Head(entry_orders)
       IN  active_trade' = ActiveTradeContext(WithId(TradeOfSignal(signal, "OPEN"), opened + 1),
                                              signal.atr, signal.stop_loss, signal.target)
    /\ entry_orders' = Tail(entry_orders)
    /\ opened' = opened + 1
    /\ ev' = <<>>
    /\ raised' = None
    /\ Called("fill", None)
    /\ UNCHANGED <<is_active, bg_tasks, paper_trading, db_trades>>
    /\ UNCHANGED riskVars
    /\ UNCHANGED <<lifeVars, concVars, valVars, trendVars, mktVars, taskVars, mgrVars>>

NextSession ==
    \/ Start
    \/ Stop
    \/ \E signal \in Signals, accepted \in BOOLEAN : HandleSignal(signal, accepted)
    \/ \E feed \in Feeds, result \in AnalyzerResults, accepted \in BOOLEAN :
          OnMarketData(feed, result, accepted)
    \/ FillConfirmed

SpecSession == InitSession /\ [][NextSession]_vars

(***************************************************************************)
(* A session receiving feed messages that carry several instruments.       *)
(***************************************************************************)
\* The most feeds in a message.
MaxBatch == 2

\* Feeds of index instruments that carry a price and an I1 candle: the loop
\* body acts on each, by the trade update or by the analysis.
BatchFeeds == {f \in Feeds : f.is_index /\ f.ltp # 0 /\ f.candle # None}

\* The messages: the feeds, and what process_tick returns for each.
Batches ==
    UNION { [feeds : [1..n -> BatchFeeds], results : [1..n -> AnalyzerResults]] : n \in 2..MaxBatch }

\* on_market_data with a message of several feeds; the call is tagged with
\* their number.
OnMarketDataBatch(b, accepted) ==
    /\ Called("on_market_data", Some(Len(b.feeds)))
    /\ Returned(on_market_data(Session, engine, b.feeds, b.results,
                               place_order(paper_trading, accepted), opened + 1))

NextBatch ==
    \/ \E b \in Batches, accepted \in BOOLEAN : OnMarketDataBatch(b, accepted)
    \/ FillConfirmed

SpecBatch == InitSession /\ [][NextBatch]_vars

(***************************************************************************)
(* Several sessions of one user, each with its own RiskEngine on the same  *)
(* keys, calling record_trade at the same time: the store commands of the  *)
(* calls interleave in any order.                                          *)
(***************************************************************************)
\* The number of sessions.
NumSessions == 2

\* The most record_trade calls started in a run.
MaxCalls == 3

Sessions == 1..NumSessions

\* The pnl arguments: a loss, a gain, and a loss that reaches the limit.
ConcPnlSet == {-30, 15, -2500}

InitConc ==
    /\ LifeIdle
    /\ ValIdle
    /\ TrendIdle
    /\ MktIdle
    /\ TaskIdle
    /\ MgrIdle
    /\ SessIdle
    /\ today = 0
    /\ gov = "RiskEngine"
    /\ drm = None
    /\ engine = RiskEngine(USER, MAX_TRADES, MAX_LOSS_AMT, 0)
    /\ redis = EmptyDict
    /\ risk_ret = None
    /\ rtick = FALSE
    /\ day_pnl = 0
    /\ day_trades = 0
    /\ breach = FALSE
    /\ records = 0
    /\ pc = [x \in Sessions |-> "idle"]
    /\ pnl_arg = [x \in Sessions |-> 0]
    /\ new_pnl = [x \in Sessions |-> 0]
    /\ ncalls = 0
    /\ sum_pnl = 0
    /\ overlapped = FALSE

\* Session x calls record_trade(pnl).
BeginRecordTrade(x, pnl) ==
    /\ pc[x] = "idle"
    /\ ncalls < MaxCalls
    /\ pc' = [pc EXCEPT ![x] = "incr"]
    /\ pnl_arg' = [pnl_arg EXCEPT ![x] = pnl]
    /\ ncalls' = ncalls + 1
    /\ sum_pnl' = sum_pnl + pnl
    /\ overlapped' = (overlapped \/ \E y \in Sessions : pc[y] # "idle")
    /\ UNCHANGED new_pnl
    /\ UNCHANGED riskVars
    /\ UNCHANGED <<lifeVars, sessVars, valVars, trendVars, mktVars, taskVars, mgrVars>>

\* The record_trade call of session x issues its next store command.
StepRecordTrade(x) ==
    /\ pc[x] # "idle"
    /\ LET r == record_trade_step(engine, redis,
                                  [pc |-> pc[x], pnl |-> pnl_arg[x], new_pnl |-> new_pnl[x]])
       IN  /\ redis' = r[1]
           /\ pc' = [pc EXCEPT ![x] = r[2].pc]
           /\ new_pnl' = [new_pnl EXCEPT ![x] = r[2].new_pnl]
           /\ breach' = (breach \/ get_stats(engine, r[1]).pnl <= -engine.max_loss_amt)
    /\ UNCHANGED <<pnl_arg, ncalls, sum_pnl, overlapped>>
    /\ UNCHANGED <<today, gov, drm, engine, risk_ret, rtick, day_pnl, day_trades, records>>
    /\ UNCHANGED <<lifeVars, sessVars, valVars, trendVars, mktVars, taskVars, mgrVars>>

NextConc ==
    \/ \E x \in Sessions, pnl \in ConcPnlSet : BeginRecordTrade(x, pnl)
    \/ \E x \in Sessions : StepRecordTrade(x)

SpecConc == InitConc /\ [][NextConc]_vars

(***************************************************************************)
(* app/services/ai_validator.py                                            *)
(* The oracle is external.  Within one validate_signal call it raises,     *)
(* answers with a text, or stays silent; the call awaits it in             *)
(* asyncio.to_thread with no deadline of its own.                          *)
(***************************************************************************)
\* The largest number of validate_signal calls made.
MaxValidations == 4

\* "x or y" of two Optional strings.
Or(x, y) == IF x # None /\ x # Some("") THEN x ELSE y

\* AIValidator(api_key), constructed with GEMINI_API_KEY = env in the
\* environment: the model exists when either key is a non-empty string.
AIValidator(api_key, env) ==
    [ api_key |-> Or(api_key, env),
      model   |-> Or(api_key, env) # None /\ Or(api_key, env) # Some("") ]

ApiKeys == {None, Some(""), Some("key")}

\* The reply texts tried.
ReplyTexts ==
    { "not json",
      "[]",
      "{}",
      "{\"verdict\": \"GO\", \"reason\": \"trend\"}",
      "{\"verdict\": \"NO_GO\", \"reason\": \"messy\"}",
      "{\"verdict\": \"go\"}" }

\* json.loads on the reply texts: the parsed value, or the error raised.
json_loads(text) ==
    CASE text = "[]" -> [type |-> "list", value |-> <<>>]
      [] text = "{}" -> [type |-> "dict", value |-> EmptyDict]
      [] text = "{\"verdict\": \"GO\", \"reason\": \"trend\"}"
            -> [type |-> "dict", value |-> ("verdict" :> "GO") @@ ("reason" :> "trend")]
      [] text = "{\"verdict\": \"NO_GO\", \"reason\": \"messy\"}"
            -> [type |-> "dict", value |-> ("verdict" :> "NO_GO") @@ ("reason" :> "messy")]
      [] text = "{\"verdict\": \"go\"}"
            -> [type |-> "dict", value |-> ("verdict" :> "go")]
      [] OTHER -> [type |-> "JSONDecodeError", value |-> <<>>]

\* dict.get(key, default)
dict_get(d, key, default) == IF key \in DOMAIN d THEN d[key] ELSE default

\* What the oracle can do in one call, other than stay silent:
\* generate_content raises, or it returns a response with a text.
OracleReplies == {[kind |-> "raise", text |-> ""]} \cup [kind : {"text"}, text : ReplyTexts]

FAIL_OPEN == [ok |-> TRUE, reason |-> "AI Error. Defaulting to GO."]

\* validate_signal from the return of generate_content on: the try body after
\* the await and the except branch.  res_json.get on a parsed value that is
\* no dict raises AttributeError.
after_reply(r) ==
    IF r.kind = "raise" THEN FAIL_OPEN
    ELSE LET res_json == json_loads(r.text)
         IN  IF res_json.type # "dict" THEN FAIL_OPEN
             ELSE [ ok     |-> dict_get(res_json.value, "verdict", "NO_GO") = "GO",
                    reason |-> dict_get(res_json.value, "reason", "Unknown AI reason") ]

\* The return of a call: the pair and the history.
Returns(pair) ==
    /\ vpc' = "returned"
    /\ approve' = pair
    /\ verdicts' = Append(verdicts, pair.ok)

InitValidator ==
    /\ LifeIdle
    /\ RiskIdle
    /\ SessIdle
    /\ ConcIdle
    /\ TrendIdle
    /\ MktIdle
    /\ TaskIdle
    /\ MgrIdle
    /\ \E api_key \in ApiKeys, env \in ApiKeys : validator = AIValidator(api_key, env)
    /\ vpc = "idle"
    /\ oracle = None
    /\ approve = None
    /\ verdicts = <<>>

\* validate_signal up to its await: "if not self.model: return True, ...",
\* else the call of generate_content is handed to a thread.
ValidateSignal ==
    /\ vpc # "to_thread"
    /\ Len(verdicts) < MaxValidations
    /\ oracle' = None
    /\ IF ~validator.model
       THEN Returns([ok |-> TRUE, reason |-> "No API Key configured. Defaulting to GO."])
       ELSE /\ vpc' = "to_thread"
            /\ approve' = None
            /\ verdicts' = verdicts
    /\ UNCHANGED validator
    /\ UNCHANGED <<lifeVars, riskVars, sessVars, concVars, trendVars, mktVars, taskVars, mgrVars>>

\* generate_content returns or raises and validate_signal runs to its return.
OracleAnswers(r) ==
    /\ vpc = "to_thread"
    /\ oracle = None
    /\ oracle' = r
    /\ Returns(after_reply(r))
    /\ UNCHANGED validator
    /\ UNCHANGED <<lifeVars, riskVars, sessVars, concVars, trendVars, mktVars, taskVars, mgrVars>>

\* The oracle will not answer this call: generate_content neither returns
\* nor raises, and nothing in validate_signal ends the await.
OracleSilent ==
    /\ vpc = "to_thread"
    /\ oracle = None
    /\ oracle' = [kind |-> "silent", text |-> ""]
    /\ UNCHANGED <<validator, vpc, approve, verdicts>>
    /\ UNCHANGED <<lifeVars, riskVars, sessVars, concVars, trendVars, mktVars, taskVars, mgrVars>>

NextValidator ==
    \/ ValidateSignal
    \/ \E r \in OracleReplies : OracleAnswers(r)
    \/ OracleSilent

\* Every step the validator or the oracle can take is taken in the end.
SpecValidator == InitValidator /\ [][NextValidator]_vars /\ WF_vars(NextValidator)

(***************************************************************************)
(* app/services/trend_analyzer.py                                          *)
(* analyze_trend for one symbol of the message.  The indicator values      *)
(* (analyze_scalping_signals, analyze_volume) are inputs, drawn from their *)
(* ranges; the volume ratio, momentum and velocity are in tenths, and      *)
(* prices are multiples of 2000 so that every percentage is exact.         *)
(***************************************************************************)
SYMBOL == "NSE_INDEX|Nifty Bank"

\* SCALPING_CONFIG: minConfidence, minVolumeRatio in tenths, and
\* targetPercent, stopLossPercent, trailStopPercent in tenths of a percent.
MIN_CONFIDENCE == 40
MIN_VOLUME_RATIO_X10 == 8
TARGET_PERMILLE == 3
STOP_LOSS_PERMILLE == 2
TRAIL_STOP_PERMILLE == 1

\* "if len(candle_store[symbol]) > 500"
STORE_LIMIT == 500

\* The lot size of a symbol containing "Bank".
BANK_LOT == 15

Min(a, b) == IF a <= b THEN a ELSE b

Abs(x) == IF x < 0 THEN -x ELSE x

PermilleOf(p, n) == (p * n) \div 1000

\* list.sort(key=timestamp), which is stable: c goes behind every candle of
\* sorted whose timestamp is not larger.
RECURSIVE InsertByTimestamp(_, _)
InsertByTimestamp(c, sorted) ==
    IF sorted = <<>> THEN <<c>>
    ELSE IF Head(sorted).timestamp <= c.timestamp
         THEN <<Head(sorted)>> \o InsertByTimestamp(c, Tail(sorted))
         ELSE <<c>> \o sorted

RECURSIVE SortByTimestamp(_)
SortByTimestamp(cs) ==
    IF cs = <<>> THEN <<>>
    ELSE InsertByTimestamp(cs[Len(cs)], SortByTimestamp(SubSeq(cs, 1, Len(cs) - 1)))

\* "Process candles" and "Store candles": the I1 and I30 candles of the
\* message, sorted, are appended unless their timestamp is in
\* existing_timestamps, the set taken before the loop; then the store is cut
\* to its last STORE_LIMIT candles.
store_candles(store, ohlc) ==
    LET InInterval(c) == c.interval \in {"I1", "I30"}
        candles == SortByTimestamp(SelectSeq(ohlc, InInterval))
        existing_timestamps == {store[i].timestamp : i \in DOMAIN store}
        IsNew(c) == c.timestamp \notin existing_timestamps
        appended == store \o SelectSeq(candles, IsNew)
    IN  IF Len(appended) > STORE_LIMIT
        THEN SubSeq(appended, Len(appended) - STORE_LIMIT + 1, Len(appended))
        ELSE appended

\* "min_required = 3 if any(c['interval'] == 'I30' ...) else 5"
min_required(store) ==
    IF \E i \in DOMAIN store : store[i].interval = "I30" THEN 3 ELSE 5

\* calculate_scalping_confidence(signals, volume_ratio) for a numeric rsi.
calculate_scalping_confidence(signals, ratio_x10) ==
    LET trend == IF \/ signals.ema = "BULLISH" /\ signals.supertrend = "UP"
                    \/ signals.ema = "BEARISH" /\ signals.supertrend = "DOWN"
                 THEN 40 ELSE 0
        rsi == IF \/ signals.rsi < 30 /\ signals.ema = "BULLISH"
                  \/ signals.rsi > 70 /\ signals.ema = "BEARISH"
               THEN 20 ELSE 0
        price_action ==
            IF \/ signals.priceAction = "BREAKOUT" /\ signals.ema = "BULLISH"
               \/ signals.priceAction = "STRONG_BULL" /\ signals.supertrend = "UP"
            THEN 20
            ELSE IF \/ signals.priceAction = "BREAKDOWN" /\ signals.ema = "BEARISH"
                    \/ signals.priceAction = "STRONG_BEAR" /\ signals.supertrend = "DOWN"
            THEN 20 ELSE 0
        volume_score == IF ratio_x10 > MIN_VOLUME_RATIO_X10
                        THEN 2 * Min(ratio_x10 - 10, 10) ELSE 0
    IN  Min(trend + rsi + price_action + volume_score, 100)

\* validate_signal_consistency(symbol, current_signals), the cache entry
\* being previous; expired: the entry is older than CACHE_EXPIRY.
validate_signal_consistency(previous, cur, expired) ==
    IF previous = None \/ expired THEN FALSE
    ELSE LET prev == previous.signals
             checks ==
                 << cur.ema = prev.ema,
                    cur.supertrend = prev.supertrend,
                    \/ cur.ema = "BULLISH" /\ cur.rsi > prev.rsi
                    \/ cur.ema = "BEARISH" /\ cur.rsi < prev.rsi,
                    \/ cur.ema = "BULLISH" /\ cur.momentum > prev.momentum
                    \/ cur.ema = "BEARISH" /\ cur.momentum < prev.momentum,
                    cur.velocity * prev.velocity > 0 >>
         IN  \/ checks[1] /\ checks[2]
             \/ Cardinality({i \in 1..5 : checks[i]}) >= 3

\* should_open_new_trade(symbol, user_id): no document of the symbol and
\* user is OPEN.
should_open_new_trade(trades) == \A i \in DOMAIN trades : trades[i].status # "OPEN"

\* The new_trade document of analyze_trend.
new_trade(current_price, trade_type, confidence, trade_mode) ==
    [ tradeType   |-> trade_type,
      entryPrice  |-> current_price,
      targetPrice |-> IF trade_type = "CALL"
                      THEN current_price + PermilleOf(current_price, TARGET_PERMILLE)
                      ELSE current_price - PermilleOf(current_price, TARGET_PERMILLE),
      stopLoss    |-> IF trade_type = "CALL"
                      THEN current_price - PermilleOf(current_price, STOP_LOSS_PERMILLE)
                      ELSE current_price + PermilleOf(current_price, STOP_LOSS_PERMILLE),
      quantity    |-> BANK_LOT,
      status      |-> "OPEN",
      mode        |-> trade_mode,
      confidence  |-> confidence,
      order_id    |-> None,
      exit        |-> None ]

IsLive(cfg) == cfg.trade_mode = "LIVE" /\ cfg.access_token # None

\* An entry condition that leaves the confidence out.
entry_condition_NoScore(confidence, may_open, signals_consistent) ==
    may_open /\ signals_consistent

\* "if (confidence >= SCALPING_CONFIG['minConfidence'] and may_open and
\* signals_consistent)"
entry_condition(confidence, may_open, signals_consistent) ==
    confidence >= MIN_CONFIDENCE /\ may_open /\ signals_consistent

\* "Execute trade if conditions met": the documents and the live orders
\* after it; order_ok: place_live_order returns an order id.
execute_trade(st, current_price, signals, confidence, may_open, signals_consistent, order_ok) ==
    LET trade_type == IF signals.supertrend = "UP" /\ signals.ema = "BULLISH"
                      THEN "CALL" ELSE "PUT"
        valid == /\ current_price > 0
                 /\ \/ trade_type = "CALL" /\ signals.ema = "BULLISH" /\ signals.supertrend = "UP"
                    \/ trade_type = "PUT" /\ signals.ema = "BEARISH" /\ signals.supertrend = "DOWN"
        doc == new_trade(current_price, trade_type, confidence, st.config.trade_mode)
    IN  IF ~(entry_condition(confidence, may_open, signals_consistent) /\ valid) THEN st
        ELSE IF ~IsLive(st.config)
        THEN [st EXCEPT !.virtual_trades = Append(@, doc)]
        ELSE IF order_ok
        THEN [st EXCEPT !.virtual_trades = Append(@, [doc EXCEPT !.order_id = Some("order")]),
                        !.live_orders = Append(@, "algo_entry")]
        ELSE [st EXCEPT !.virtual_trades = Append(@, [doc EXCEPT !.status = "FAILED"])]

\* The exit test of update_existing_trades on the document as it was read.
should_exit(trade, current_price, signals) ==
    \/ trade.tradeType = "CALL" /\ current_price >= trade.targetPrice
    \/ trade.tradeType = "PUT" /\ current_price <= trade.targetPrice
    \/ /\ trade.tradeType = "CALL"
       /\ \/ current_price <= trade.stopLoss
          \/ signals.supertrend = "DOWN"
          \/ signals.velocity < -5 /\ signals.momentum < -5
    \/ /\ trade.tradeType = "PUT"
       /\ \/ current_price >= trade.stopLoss
          \/ signals.supertrend = "UP"
          \/ signals.velocity > 5 /\ signals.momentum > 5

\* update_existing_trades on one OPEN document: the document after it.
update_trade(trade, current_price, signals) ==
    LET trail == IF Abs(signals.velocity) > 10
                 THEN (current_price * 15 * TRAIL_STOP_PERMILLE) \div 10000
                 ELSE PermilleOf(current_price, TRAIL_STOP_PERMILLE)
        new_stop == IF trade.tradeType = "CALL" THEN current_price - trail
                                               ELSE current_price + trail
        trailed ==
            IF \/ trade.tradeType = "CALL" /\ current_price > trade.entryPrice
                  /\ new_stop > trade.stopLoss
               \/ trade.tradeType = "PUT" /\ current_price < trade.entryPrice
                  /\ new_stop < trade.stopLoss
            THEN [trade EXCEPT !.stopLoss = new_stop]
            ELSE trade
        target_hit == \/ trade.tradeType = "CALL" /\ current_price >= trade.targetPrice
                      \/ trade.tradeType = "PUT" /\ current_price <= trade.targetPrice
        pnl == IF trade.tradeType = "CALL"
               THEN (current_price - trade.entryPrice) * trade.quantity
               ELSE (trade.entryPrice - current_price) * trade.quantity
    IN  IF should_exit(trade, current_price, signals)
        THEN [trailed EXCEPT !.status = "CLOSED",
                             !.exit = [ exitPrice  |-> current_price,
                                        pnl        |-> pnl,
                                        exitReason |-> IF target_hit THEN "TARGET_HIT"
                                                       ELSE "STOP_OR_SIGNAL" ]]
        ELSE trailed

\* The exit orders update_existing_trades has accepted, for the documents
\* from i on.
RECURSIVE exit_orders(_, _, _, _, _, _)
exit_orders(trades, i, current_price, signals, cfg, order_ok) ==
    IF i > Len(trades) THEN <<>>
    ELSE (IF /\ trades[i].status = "OPEN"
             /\ should_exit(trades[i], current_price, signals)
             /\ IsLive(cfg) /\ trades[i].order_id # None /\ order_ok
          THEN <<"algo_exit">> ELSE <<>>)
         \o exit_orders(trades, i + 1, current_price, signals, cfg, order_ok)

\* update_existing_trades(symbol, current_price, signals, ...)
update_existing_trades(st, current_price, signals, order_ok) ==
    [st EXCEPT
        !.virtual_trades =
            [i \in DOMAIN @ |-> IF @[i].status = "OPEN"
                                THEN update_trade(@[i], current_price, signals)
                                ELSE @[i]],
        !.live_orders =
            @ \o exit_orders(st.virtual_trades, 1, current_price, signals, st.config, order_ok)]

\* What the gate of the call saw.
Analysed(confidence, may_open, signals_consistent) ==
    [ analysed |-> TRUE, confidence |-> confidence, can_trade |-> may_open,
      signals_consistent |-> signals_consistent ]

NotAnalysed ==
    [ analysed |-> FALSE, confidence |-> 0, may_open |-> FALSE, signals_consistent |-> FALSE ]

\* analyze_trend(data, user_id, config) for a message with the feed of
\* SYMBOL: ohlc is the feed's list of candles, None for a feed without
\* indexFF or marketOHLC.
analyze_trend(st, ohlc, current_price, signals, ratio_x10, expired, order_ok) ==
    IF ohlc = None THEN [st EXCEPT !.analysis = NotAnalysed]
    ELSE LET unique_candles == store_candles(st.candle_store, ohlc)
             s1 == [st EXCEPT !.candle_store = unique_candles]
         IN  IF Len(unique_candles) < min_required(unique_candles)
             THEN [s1 EXCEPT !.analysis = NotAnalysed]
             ELSE LET confidence == calculate_scalping_confidence(signals, ratio_x10)
                      may_open == should_open_new_trade(st.virtual_trades)
                      signals_consistent ==
                          validate_signal_consistency(st.previous_signals_cache, signals, expired)
                      s2 == [s1 EXCEPT
                                !.previous_signals_cache = [signals |-> signals],
                                !.analysis = Analysed(confidence, may_open, signals_consistent)]
                      s3 == execute_trade(s2, current_price, signals, confidence,
                                          may_open, signals_consistent, order_ok)
                  IN  update_existing_trades(s3, current_price, signals, order_ok)

(***************************************************************************)
(* analyze_trend called message after message.                             *)
(***************************************************************************)
\* The largest candle timestamp.
MaxTimestamp == 3

\* The most documents in db.virtual_trades.
MaxDocuments == 1

\* The candles of a feed: a one-minute candle of any minute, and the
\* thirty-minute candle, which starts at the first.
Candles ==
    {c \in [timestamp : 1..MaxTimestamp, interval : {"I1", "I30"}] :
        c.interval = "I30" => c.timestamp = 1}

\* The candle lists of a feed: one or two candles, in any order.
OhlcLists == UNION {[1..n -> Candles] : n \in 1..2}

\* Values of analyze_scalping_signals: both trends aligned and strong, both
\* aligned and nothing else, the two trends opposed, and a bearish average
\* under a rising supertrend.
SignalSet ==
    { [ema |-> "BULLISH", supertrend |-> "UP", rsi |-> 25, priceAction |-> "BREAKOUT",
       momentum |-> 10, velocity |-> 20],
      [ema |-> "BEARISH", supertrend |-> "DOWN", rsi |-> 75, priceAction |-> "BREAKDOWN",
       momentum |-> -10, velocity |-> -20],
      [ema |-> "BULLISH", supertrend |-> "UP", rsi |-> 50, priceAction |-> "NEUTRAL",
       momentum |-> 0, velocity |-> 0],
      [ema |-> "BULLISH", supertrend |-> "DOWN", rsi |-> 50, priceAction |-> "NEUTRAL",
       momentum |-> 0, velocity |-> 0],
      [ema |-> "BEARISH", supertrend |-> "UP", rsi |-> 75, priceAction |-> "BREAKDOWN",
       momentum |-> -10, velocity |-> 20] }

\* Volume ratios 0.8, 0.9 and 2.0.
RatioSet == {8, 9, 20}

TrendPrices == {0, 2000, 4000}

TrendConfigs ==
    { [trade_mode |-> "VIRTUAL", access_token |-> None],
      [trade_mode |-> "LIVE", access_token |-> Some("token")] }

\* The module's state, before a call.
Trend ==
    [ candle_store |-> candle_store,
      previous_signals_cache |-> previous_signals_cache,
      virtual_trades |-> virtual_trades,
      live_orders |-> live_orders,
      config |-> config,
      analysis |-> analysis ]

\* The module as imported: empty stores.
InitCandles ==
    /\ LifeIdle
    /\ RiskIdle
    /\ SessIdle
    /\ ConcIdle
    /\ ValIdle
    /\ MktIdle
    /\ TaskIdle
    /\ MgrIdle
    /\ candle_store = <<>>
    /\ previous_signals_cache = None
    /\ virtual_trades = <<>>
    /\ live_orders = <<>>
    /\ config \in TrendConfigs
    /\ analysis = None
    /\ repeats = <<>>
    /\ strike = None

\* The module after the messages that brought the first three candles.
InitTrend ==
    /\ LifeIdle
    /\ RiskIdle
    /\ SessIdle
    /\ ConcIdle
    /\ ValIdle
    /\ MktIdle
    /\ TaskIdle
    /\ MgrIdle
    /\ candle_store = [t \in 1..MaxTimestamp |->
                           [timestamp |-> t, interval |-> IF t = 1 THEN "I30" ELSE "I1"]]
    /\ previous_signals_cache = None
    /\ virtual_trades = <<>>
    /\ live_orders = <<>>
    /\ config \in TrendConfigs
    /\ analysis = None
    /\ repeats = <<>>
    /\ strike = None

\* The candles of a feed's list whose timestamp a stored candle has.
Repeats(store, ohlc) ==
    LET InStore(c) == \E i \in DOMAIN store : store[i].timestamp = c.timestamp
    IN  IF ohlc = None THEN <<>> ELSE SelectSeq(ohlc, InStore)

AnalyzeTrend(ohlc, current_price, signals, ratio_x10, expired, order_ok) ==
    \E t \in {analyze_trend(Trend, ohlc, current_price, signals, ratio_x10, expired, order_ok)} :
        /\ Len(t.virtual_trades) <= MaxDocuments
        /\ candle_store' = t.candle_store
        /\ previous_signals_cache' = t.previous_signals_cache
        /\ virtual_trades' = t.virtual_trades
        /\ live_orders' = t.live_orders
        /\ analysis' = t.analysis
        /\ repeats' = Repeats(candle_store, ohlc)
        /\ UNCHANGED <<config, strike>>
        /\ UNCHANGED <<lifeVars, riskVars, sessVars, concVars, valVars, mktVars, taskVars, mgrVars>>

\* The signals whose confidence is below the minimum at volume ratio 0.8.
QuietSignals ==
    {s \in SignalSet : calculate_scalping_confidence(s, MIN_VOLUME_RATIO_X10) < MIN_CONFIDENCE}

\* Messages with any candle lists, under indicators that open no trade.
NextCandles ==
    \E ohlc \in OhlcLists \cup {None}, signals \in QuietSignals :
        AnalyzeTrend(ohlc, 2000, signals, MIN_VOLUME_RATIO_X10, TRUE, TRUE)

SpecCandles == InitCandles /\ [][NextCandles]_vars

\* Candles with their closing price, one to a message: a later candle of a
\* timestamp is the same minute's candle with more trades in it.
PricedCandles == [timestamp : 1..MaxTimestamp, interval : {"I1"}, close : {2000, 2010}]

NextUpsert ==
    \E c \in PricedCandles, signals \in QuietSignals :
        AnalyzeTrend(<<c>>, 2000, signals, MIN_VOLUME_RATIO_X10, TRUE, TRUE)

SpecUpsert == InitCandles /\ [][NextUpsert]_vars

(***************************************************************************)
(* The two places where a scored candidate can become an entry:            *)
(* analyze_trend with enough candles stored, and a session's               *)
(* on_market_data.  A run is of one or the other.                          *)
(***************************************************************************)
\* The candle list of a feed once the store is warm: the next candle.
WarmOhlcLists == { <<[timestamp |-> MaxTimestamp + 1, interval |-> "I1"]>> }

\* Volume ratios 0.9 and 2.0: the volume score is -2 or 20.
GateRatios == {r \in RatioSet : r > MIN_VOLUME_RATIO_X10}

\* What place_live_order can answer; it is not called in VIRTUAL mode.
OrderAnswers == IF IsLive(config) THEN BOOLEAN ELSE {TRUE}

InitGate == InitTrend \/ InitSession

NextGate ==
    \/ /\ config # None
       /\ \E ohlc \in WarmOhlcLists, current_price \in TrendPrices, signals \in SignalSet,
             ratio_x10 \in GateRatios, expired \in BOOLEAN, order_ok \in OrderAnswers :
             AnalyzeTrend(ohlc, current_price, signals, ratio_x10, expired, order_ok)
    \/ /\ engine # None
       /\ \E feed \in Feeds, result \in AnalyzerResults, accepted \in BOOLEAN :
             OnMarketData(feed, result, accepted)

SpecGate == InitGate /\ [][NextGate]_vars

(***************************************************************************)
(* select_strike_rate: the contract an entry would trade.                  *)
(***************************************************************************)
\* round(x) of Python for the quotient a / b of naturals, b > 0: the nearest
\* integer, the even one of the two when a / b lies half way.
round_div(a, b) ==
    LET q == a \div b
        r == a % b
    IN  IF 2 * r < b THEN q
        ELSE IF 2 * r > b THEN q + 1
        ELSE IF q % 2 = 0 THEN q ELSE q + 1

\* The symbols 'Bank' is a substring of.
BankSymbols == {INDEX}

\* select_strike_rate with its offsets taken the other way round.
select_strike_rate_Swapped(symbol, spot_price, transaction_type, capital) ==
    LET step == IF symbol \in BankSymbols THEN 100 ELSE 50
        atm_strike == round_div(spot_price, step) * step
        offset == IF capital > 50000
                  THEN (IF transaction_type = "CALL" THEN step ELSE -step)
                  ELSE IF capital < 10000
                  THEN (IF transaction_type = "CALL" THEN -step ELSE step)
                  ELSE 0
    IN  <<symbol, atm_strike + offset, transaction_type>>

\* select_strike_rate(symbol, spot_price, transaction_type, capital); the
\* string it returns is the three parts it is formatted from.
select_strike_rate(symbol, spot_price, transaction_type, capital) ==
    LET step == IF symbol \in BankSymbols THEN 100 ELSE 50
        atm_strike == round_div(spot_price, step) * step
        offset == IF capital > 50000
                  THEN (IF transaction_type = "CALL" THEN -step ELSE step)
                  ELSE IF capital < 10000
                  THEN (IF transaction_type = "CALL" THEN step ELSE -step)
                  ELSE 0
    IN  <<symbol, atm_strike + offset, transaction_type>>

\* Spot prices on, next to and half way between strikes of either step.
SpotPrices == {49975, 50000, 50020, 50025, 50040, 50050, 50075, 50130, 50150}

\* Capital at, below and above the two thresholds.
Capitals == {9999, 10000, 30000, 50000, 50001}

StrikeArgs ==
    [symbol : Instruments, spot_price : SpotPrices, transaction_type : {"CALL", "PUT"},
     capital : Capitals]

InitStrike ==
    /\ LifeIdle
    /\ RiskIdle
    /\ SessIdle
    /\ ConcIdle
    /\ ValIdle
    /\ MktIdle
    /\ TaskIdle
    /\ MgrIdle
    /\ TrendIdle

SelectStrikeRate(a) ==
    /\ strike' = [args |-> a,
                  ret  |-> select_strike_rate(a.symbol, a.spot_price, a.transaction_type,
                                              a.capital)]
    /\ UNCHANGED <<candle_store, previous_signals_cache, virtual_trades, live_orders, config,
                   analysis, repeats>>
    /\ UNCHANGED <<lifeVars, riskVars, sessVars, concVars, valVars, mktVars, taskVars, mgrVars>>

NextStrike == \E a \in StrikeArgs : SelectStrikeRate(a)

SpecStrike == InitStrike /\ [][NextStrike]_vars

(***************************************************************************)
(* The analyzer of one session (UserTrader.analyzer): one MarketState per  *)
(* instrument, written by process_tick on the tick path, by the warmup of  *)
(* UserTrader.start and by update_context from update_option_chain_loop.   *)
(* The class TrendAnalyzer is not among the files of the repository; its   *)
(* operations follow sections 3, 4.1 and 4.3 of the specification.         *)
(***************************************************************************)
\* The last minute of a session day the clock reaches.
MaxMinute == 5

\* The last calendar day the clock reaches; the clock starts on day 1.
MaxDate == 2

\* The most process_tick calls in a run.
MaxTicks == 3

\* The most iterations of update_option_chain_loop in a run.
MaxRefresh == 2

\* The minutes of a day's opening window: minutes 0 .. OpeningMinutes - 1.
OpeningMinutes == 2

\* The entries the open-interest history keeps.
OiHistoryLimit == 1

\* The most candles of a short feed.
MaxFeed == 2

DAY_MINUTES == 1440

\* The cooldown of the lock, in minutes.
COOLDOWN_MINUTES == 5

\* The age, in minutes, beyond which a 1-minute candle is stale (65 s).
STALE_MINUTES == 1

\* The minutes from the start of day 0 to time t.
Minutes(t) == t.day * DAY_MINUTES + t.minute

Max(a, b) == IF a >= b THEN a ELSE b

\* The prices and volume of a candle; every sum high + low + close is a
\* multiple of 3, so the typical price is exact.
Shapes ==
    { [high |-> 105, low |-> 95, close |-> 100, volume |-> 10],
      [high |-> 110, low |-> 90, close |-> 106, volume |-> 20] }

\* The candle of shape sh generated at time t.
CandleAt(t, sh) ==
    [ day |-> t.day, minute |-> t.minute,
      high |-> sh.high, low |-> sh.low, close |-> sh.close, volume |-> sh.volume ]

Typical(c) == (c.high + c.low + c.close) \div 3

\* TrendAnalyzer._calculate_vwap(state, c): a candle of a later day than the
\* reset date zeroes the accumulators and moves the reset date first.
calculate_vwap(state, c) ==
    LET s0 == IF c.day > state.vwap_reset_date
              THEN [state EXCEPT !.vwap_cum_vol_price = 0,
                                 !.vwap_cum_vol = 0,
                                 !.vwap_reset_date = c.day]
              ELSE state
    IN  [s0 EXCEPT !.vwap_cum_vol_price = @ + Typical(c) * c.volume,
                   !.vwap_cum_vol = @ + c.volume]

\* update_orb without the freeze: every candle widens the record.
update_orb_Unfrozen(orb, c) ==
    LET o == IF orb.date # c.day
             THEN [high |-> 0, low |-> 0, finalized |-> FALSE, date |-> c.day]
             ELSE orb
    IN  [o EXCEPT !.high = IF o.high = 0 THEN c.high ELSE Max(o.high, c.high),
                  !.low = IF o.low = 0 THEN c.low ELSE Min(o.low, c.low),
                  !.finalized = o.finalized \/ c.minute >= OpeningMinutes]

\* The opening-range record after candle c: a candle of another day starts
\* the record of its day; until the record is finalized a candle of the
\* opening window widens it and a later candle finalizes it.
update_orb(orb, c) ==
    LET o == IF orb.date # c.day
             THEN [high |-> 0, low |-> 0, finalized |-> FALSE, date |-> c.day]
             ELSE orb
    IN  IF o.finalized THEN o
        ELSE IF c.minute < OpeningMinutes
        THEN [o EXCEPT !.high = IF o.high = 0 THEN c.high ELSE Max(o.high, c.high),
                       !.low = IF o.low = 0 THEN c.low ELSE Min(o.low, c.low)]
        ELSE [o EXCEPT !.finalized = TRUE]

\* The window after candle c: the candle of c's timestamp is replaced, a
\* later candle is appended.
upsert_candle(candles, c) ==
    IF \E i \in DOMAIN candles : candles[i].day = c.day /\ candles[i].minute = c.minute
    THEN [i \in DOMAIN candles |->
            IF candles[i].day = c.day /\ candles[i].minute = c.minute THEN c ELSE candles[i]]
    ELSE Append(candles, c)

\* Indicator Engine update(instrument, candle): window, VWAP, opening range.
update_state(state, c) ==
    LET s1 == calculate_vwap(state, c)
    IN  [s1 EXCEPT !.candles = upsert_candle(@, c), !.orb = update_orb(@, c)]

\* TrendAnalyzer.update_context(symbol, pcr, oi_data): the put/call ratio
\* and the bounded open-interest history.
update_context(state, pcr, oi_data) ==
    LET h == Append(state.oi_history, oi_data)
    IN  [state EXCEPT !.pcr = pcr,
                      !.oi_history = IF Len(h) > OiHistoryLimit THEN Tail(h) ELSE h]

\* lock_at with a lock that never holds.
lock_at_Ignored(lock, t) == [locked |-> FALSE, time |-> 0, signal |-> ""]

\* The lock record at time t: armed locks older than the cooldown are idle.
lock_at(lock, t) ==
    IF lock.locked /\ Minutes(t) - lock.time >= COOLDOWN_MINUTES
    THEN [locked |-> FALSE, time |-> 0, signal |-> ""]
    ELSE lock

set_trade_lock(state, signal, t) ==
    [state EXCEPT !.lock = [locked |-> TRUE, time |-> Minutes(t), signal |-> signal]]

Rejected(reason) == [kind |-> "rejected", reason |-> reason]

\* The gates of the pipeline after the state update, in order: each is its
\* name, whether input g passes it, and what a failure returns.
Gates(g) ==
    << [name |-> "time_of_day", ok |-> g.in_hours,         out |-> Rejected("time window")],
       [name |-> "regime",      ok |-> g.adx_ok,           out |-> Rejected("chop")],
       [name |-> "trigger",     ok |-> g.trigger # "NONE", out |-> None],
       [name |-> "score",       ok |-> g.score_ok,
        out |-> [kind |-> "ignored", reason |-> "score below minimum"]],
       [name |-> "risk",        ok |-> g.atr_ok,           out |-> Rejected("volatility too low")] >>

\* run_gates without the short circuit: every gate from the k-th on is
\* evaluated, and the tick passes when the k-th does.
run_gates_All(gates, k) ==
    [ steps  |-> [n \in 1..(Len(gates) - k + 1) |-> gates[n + k - 1].name],
      passed |-> k > Len(gates) \/ gates[k].ok,
      out    |-> IF k > Len(gates) THEN None ELSE gates[k].out ]

\* The gates from the k-th on: the names of the gates evaluated and the
\* result, None standing for 'all passed' only when no gate is left.
RECURSIVE run_gates(_, _)
run_gates(gates, k) ==
    IF k > Len(gates) THEN [steps |-> <<>>, passed |-> TRUE, out |-> None]
    ELSE IF ~gates[k].ok
    THEN [steps |-> <<gates[k].name>>, passed |-> FALSE, out |-> gates[k].out]
    ELSE LET r == run_gates(gates, k + 1)
         IN  [r EXCEPT !.steps = <<gates[k].name>> \o @]

\* TrendAnalyzer.process_tick(instrument, candle) at time t on the
\* instrument's state, under the readings g of the indicators: the state
\* left, the result returned and the steps taken.
process_tick(state, c, t, g) ==
    IF Minutes(t) - Minutes(c) > STALE_MINUTES
    THEN [state |-> state, out |-> Rejected("stale"), steps |-> <<"staleness">>]
    ELSE
    LET s1 == update_state(state, c)
        s2 == [s1 EXCEPT !.lock = lock_at(@, t)]
    IN  IF s2.lock.locked
        THEN [state |-> s2, out |-> Rejected("cooldown active"),
              steps |-> <<"staleness", "update", "cooldown">>]
        ELSE
        LET r == run_gates(Gates(g), 1)
            steps == <<"staleness", "update", "cooldown">> \o r.steps
        IN  IF ~r.passed
            THEN [state |-> s2, out |-> r.out, steps |-> steps]
            ELSE [state |-> set_trade_lock(s2, g.trigger, t),
                  out   |-> [kind |-> "signal", direction |-> g.trigger],
                  steps |-> steps \o <<"arm", "emit">>]

\* The warmup of UserTrader.start with a non-empty history: the window
\* becomes the history, and the candles of today are taken into the VWAP.
RECURSIVE absorb_all(_, _)
absorb_all(state, cs) ==
    IF cs = <<>> THEN state ELSE absorb_all(calculate_vwap(state, Head(cs)), Tail(cs))

warmup(state, history, date_today) ==
    LET todays_candles == SelectSeq(history, LAMBDA c : c.day = date_today)
    IN  absorb_all([state EXCEPT !.candles = history], todays_candles)

\* chain_iteration that also drops the oldest candle of the window.
chain_iteration_Trims(state, spot, chain, t) ==
    [state EXCEPT !.pcr = 1, !.candles = IF @ = <<>> THEN @ ELSE Tail(@)]

\* One iteration of update_option_chain_loop on the state of symbol_index:
\* no spot price (0.0), a chain extract_target_strikes raises on, or the
\* open interest of a chain (0 and 0 for a chain that was not fetched).
chain_iteration(state, spot, chain, t) ==
    IF spot = 0 THEN state
    ELSE IF chain.malformed THEN state
    ELSE LET pcr == IF chain.call_oi > 0 THEN chain.put_oi \div chain.call_oi ELSE 0
         IN  update_context(state, pcr,
                            [timestamp |-> Minutes(t), pcr |-> pcr,
                             call_oi |-> chain.call_oi, put_oi |-> chain.put_oi])

\* What the spot quote and the chain request of an iteration bring.
Spots == {0, 50000}

Chains ==
    { [malformed |-> TRUE,  call_oi |-> 0,   put_oi |-> 0],
      [malformed |-> FALSE, call_oi |-> 0,   put_oi |-> 0],
      [malformed |-> FALSE, call_oi |-> 100, put_oi |-> 200] }

\* The readings of the indicators on a tick: all gates pass, or one fails.
AllPass ==
    [in_hours |-> TRUE, adx_ok |-> TRUE, trigger |-> "CALL", score_ok |-> TRUE, atr_ok |-> TRUE]

GateInputs ==
    { AllPass,
      [AllPass EXCEPT !.trigger = "PUT"],
      [AllPass EXCEPT !.in_hours = FALSE],
      [AllPass EXCEPT !.adx_ok = FALSE],
      [AllPass EXCEPT !.trigger = "NONE"],
      [AllPass EXCEPT !.score_ok = FALSE],
      [AllPass EXCEPT !.atr_ok = FALSE] }

\* The candle times of a tick at time t: generated now, or two minutes ago.
TickTimes(t) ==
    {t} \cup (IF t.minute >= 2 THEN {[t EXCEPT !.minute = @ - 2]} ELSE {})

\* The histories fetch_historical_data brings at time t: ascending candles
\* of yesterday and of today up to t.
HistoryTimes(t) ==
    { [day |-> t.day - 1, minute |-> MaxMinute] }
    \cup { [day |-> t.day, minute |-> m] : m \in {0, t.minute - 1} \cap 0..(t.minute - 1) }

Histories(t) ==
    LET sh == CHOOSE x \in Shapes : x.volume = 10
    IN  { <<CandleAt(a, sh)>> : a \in HistoryTimes(t) }
        \cup { <<CandleAt(p[1], sh), CandleAt(p[2], sh)>> :
                 p \in {q \in HistoryTimes(t) \X HistoryTimes(t) :
                          Minutes(q[1]) < Minutes(q[2])} }

MktCalled(name, instrument) ==
    mcall' = [name |-> name, instrument |-> instrument, bit |-> ~mcall.bit]

InitMarket ==
    /\ LifeIdle
    /\ RiskIdle
    /\ SessIdle
    /\ ConcIdle
    /\ ValIdle
    /\ TrendIdle
    /\ MktIdle
    /\ TaskIdle
    /\ MgrIdle

\* The minute passes, or the day.
Advance ==
    /\ \/ now.minute < MaxMinute /\ now' = [now EXCEPT !.minute = @ + 1]
       \/ now.day < MaxDate /\ now' = [day |-> now.day + 1, minute |-> 0]
    /\ UNCHANGED <<states, emitted, trace, mcall, nticks, nrefresh>>
    /\ UNCHANGED <<lifeVars, riskVars, sessVars, concVars, valVars, trendVars, taskVars, mgrVars>>

\* process_tick for a candle the window does not hold yet.
ProcessTick(instrument, c, g) ==
    /\ nticks < MaxTicks
    /\ \A i \in DOMAIN states[instrument].candles :
          Minutes(states[instrument].candles[i]) < Minutes(c)
    /\ \E r \in {process_tick(states[instrument], c, now, g)} :
          /\ states' = [states EXCEPT ![instrument] = r.state]
          /\ emitted' = r.out
          /\ trace' = r.steps
    /\ nticks' = nticks + 1
    /\ MktCalled("process_tick", instrument)
    /\ UNCHANGED <<now, nrefresh>>
    /\ UNCHANGED <<lifeVars, riskVars, sessVars, concVars, valVars, trendVars, taskVars, mgrVars>>

\* UserTrader.start with a history to warm up on.
StartWarm(history) ==
    /\ ~is_active
    /\ Called("start", None)
    /\ \E t \in {start(Runner)} :
          /\ is_active' = t.is_active
          /\ bg_tasks' = t.bg_tasks
          /\ active_trade' = t.active_trade
          /\ ev' = t.ev
    /\ raised' = None
    /\ states' = [states EXCEPT ![INDEX] = warmup(@, history, now.day)]
    /\ MktCalled("start", INDEX)
    /\ UNCHANGED <<now, emitted, trace, nticks, nrefresh>>
    /\ UNCHANGED <<paper_trading, entry_orders, db_trades, opened>>
    /\ UNCHANGED <<lifeVars, riskVars, concVars, valVars, trendVars, taskVars, mgrVars>>

\* One iteration of the running update_option_chain_loop task.
ChainIteration(spot, chain) ==
    /\ is_active
    /\ \E i \in DOMAIN bg_tasks : bg_tasks[i] = "chain_task"
    /\ nrefresh < MaxRefresh
    /\ states' = [states EXCEPT ![INDEX] = chain_iteration(@, spot, chain, now)]
    /\ nrefresh' = nrefresh + 1
    /\ MktCalled("update_option_chain_loop", INDEX)
    /\ UNCHANGED <<now, emitted, trace, nticks>>
    /\ UNCHANGED <<lifeVars, riskVars, sessVars, concVars, valVars, trendVars, taskVars, mgrVars>>

\* The ticks at time t: any candle under any readings for the index, fresh
\* candles of one shape that pass every gate or fail the regime gate for the
\* other instrument.
Ticks(t) ==
    [instrument : {INDEX}, at : TickTimes(t), shape : Shapes, g : GateInputs]
    \cup [instrument : {NIFTY}, at : {t}, shape : {sh \in Shapes : sh.volume = 10},
          g : {AllPass, [AllPass EXCEPT !.adx_ok = FALSE]}]

\* The tick path alone: candles of both instruments as the clock runs.
NextMarket ==
    \/ Advance
    \/ \E k \in Ticks(now) : ProcessTick(k.instrument, CandleAt(k.at, k.shape), k.g)

SpecMarket == InitMarket /\ [][NextMarket]_vars

\* The tick path over the few candles of a feed.
NextPipeline ==
    \/ Advance
    \/ \E k \in Ticks(now) :
          /\ nticks < MaxFeed
          /\ ProcessTick(k.instrument, CandleAt(k.at, k.shape), k.g)

SpecPipeline == InitMarket /\ [][NextPipeline]_vars

\* The session's start, and the two tasks it starts: the refresh task and
\* the feed, here the feed of the index.
NextRefresh ==
    \/ Advance
    \/ \E k \in {x \in Ticks(now) : x.instrument = INDEX /\ x.at = now /\ x.g = AllPass} :
          /\ \E i \in DOMAIN bg_tasks : bg_tasks[i] = "ws_task"
          /\ nticks < MaxFeed
          /\ ProcessTick(k.instrument, CandleAt(k.at, k.shape), k.g)
    \/ \E history \in Histories(now) : StartWarm(history)
    \/ \E spot \in Spots, chain \in Chains : ChainIteration(spot, chain)

SpecRefresh == InitMarket /\ [][NextRefresh]_vars

(***************************************************************************)
(* One UserTrader session whose feed callbacks overlap.  on_message of     *)
(* websocket_client.py schedules on_market_data for every message with     *)
(* loop.create_task and keeps no reference to the task; a callback runs    *)
(* until an await that waits for the store, the database or the broker,    *)
(* and the other callbacks and stop() run while it is suspended there.     *)
(* Messages carry one feed.  The frame of a callback holds pc, the await   *)
(* it is suspended at, and its locals.                                     *)
(***************************************************************************)
\* The most callbacks scheduled in a run.
MaxMessages == 3

\* The most callbacks pending at a time.
MaxTasks == 2

\* What analyzer.process_tick returns for the feed of a callback.
TaskResults == {None} \cup {sig \in Signals : sig.signal = "BUY_CALL"}

\* The frame of a callback that has not run yet.  since is the number of
\* orders placed when the callback took its decision to trade or to exit.
Frame(feed, result) ==
    [ pc |-> "start", feed |-> feed, result |-> result, price |-> 0, pnl |-> 0,
      new_pnl |-> 0, status |-> "", since |-> 0 ]

\* The part of the session a callback works on.
TaskSession == Session @@ [placed |-> placed, nrecorded |-> nrecorded]

Done(f) == [f EXCEPT !.pc = "done"]

\* execution_service.place_order with the tag, as recorded in placed: the
\* status returned, the trade exited (0 for an entry), whether the session
\* was active, and whether another callback has placed an order with the
\* same tag since this one took its decision.
Order(s, f, tag, status, trade, active) ==
    [s EXCEPT !.placed = Append(@,
        [ tag |-> tag, status |-> status, trade |-> trade, active |-> active,
          overlap |-> \E k \in (f.since + 1)..Len(s.placed) :
                          s.placed[k].tag = tag /\ s.placed[k].status = "success" ])]

\* handle_signal from 'if order_resp.get("status") == "error"' on; the
\* exception of the constructor is caught in on_market_data.
after_entry(s, f, id) ==
    IF f.status = "error" THEN << s, Done(f) >>
    ELSE << [open_trade([s EXCEPT !.entry_orders = Append(@, f.result)], f.result, id)
                EXCEPT !.raised = None],
            Done(f) >>

\* handle_signal from the return of can_trade to the await of place_order,
\* which suspends the callback only when the order goes to the broker.
entry_order(s, e, f, paper, status, id, active) ==
    LET r  == can_trade(e, s.redis)
        s1 == [s EXCEPT !.redis = r[1]]
        f1 == [f EXCEPT !.status = status]
    IN  IF ~r[2].ok THEN << s1, Done(f) >>
        ELSE IF paper THEN after_entry(Order(s1, f, "ENTRY", status, 0, active), f1, id)
        ELSE << Order(s1, f, "ENTRY", status, 0, active), [f1 EXCEPT !.pc = "entry_order"] >>

\* on_market_data from "entry = self.active_trade.entry_price" to the await
\* of record_trade; with no active trade left the attribute access raises.
after_exit(s, f) ==
    IF s.active_trade = None THEN << s, Done(f) >>
    ELSE LET c   == s.active_trade
             pnl == IF c.trade.tradeType = CALL THEN f.price - c.entry_price
                                                ELSE c.entry_price - f.price
         IN  << s, [f EXCEPT !.pc = "incr", !.pnl = pnl * c.trade.quantity] >>

\* on_market_data from "self.active_trade.trade.status = TradeStatus.CLOSED"
\* to the await of db.trades.update_one.
closing(s, f) ==
    IF s.active_trade = None THEN << s, Done(f) >>
    ELSE LET closed == [s.active_trade.trade EXCEPT !.status = "CLOSED",
                                                    !.exitPrice = Some(f.price),
                                                    !.pnl = Some(f.pnl)]
         IN  << [s EXCEPT !.active_trade.trade = closed,
                          !.db_trades = (closed.id :> closed) @@ @],
                [f EXCEPT !.pc = "update_one"] >>

\* on_market_data from its first line to its first await.
begin(s, f, paper, status, active) ==
    IF f.feed.ltp = 0 THEN << s, Done(f) >>
    ELSE IF s.active_trade # None /\ f.feed.candle # None
    THEN LET u  == update(s.active_trade, f.feed.ltp, f.feed.candle.high, f.feed.candle.low)
             s1 == [s EXCEPT !.active_trade = u[1]]
             f1 == [f EXCEPT !.price = u[2].price, !.status = status,
                             !.since = Len(s.placed)]
             s2 == Order(s1, f1, "EXIT", status, s1.active_trade.trade.id, active)
         IN  IF "action" \in DOMAIN u[2] /\ u[2].action = "EXIT_ALL"
             THEN IF paper THEN after_exit(s2, f1)
                           ELSE << s2, [f1 EXCEPT !.pc = "exit_order"] >>
             ELSE << s1, Done(f) >>
    ELSE IF f.feed.is_index /\ f.feed.candle # None /\ f.result # None
    THEN << s, [f EXCEPT !.pc = "insert_signal"] >>
    ELSE << s, Done(f) >>

\* The callback with frame f runs from the await it is suspended at to its
\* next one: <<session, frame>> after it.  status is what place_order
\* returns if it is called, id the id of a new VirtualTrade, active the
\* session's is_active.
resume(s, e, f, paper, status, id, active) ==
    CASE f.pc = "start" -> begin(s, f, paper, status, active)
      [] f.pc = "insert_signal" ->
            IF f.result.signal \notin {"BUY_CALL", "BUY_PUT"} \/ s.active_trade # None
            THEN << s, Done(f) >>
            ELSE << s, [f EXCEPT !.pc = "can_trade", !.since = Len(s.placed)] >>
      [] f.pc = "can_trade" -> entry_order(s, e, f, paper, status, id, active)
      [] f.pc = "entry_order" -> after_entry(s, f, id)
      [] f.pc = "exit_order" -> after_exit(s, f)
      [] f.pc \in {"incr", "incrbyfloat", "get", "lock"} ->
            LET r  == record_trade_step(e, s.redis,
                                        [pc |-> f.pc, pnl |-> f.pnl, new_pnl |-> f.new_pnl])
                s1 == [s EXCEPT !.redis = r[1],
                                !.nrecorded = IF f.pc = "incr" THEN @ + 1 ELSE @]
            IN  IF r[2].pc = "idle" THEN closing(s1, f)
                ELSE << s1, [f EXCEPT !.pc = r[2].pc, !.new_pnl = r[2].new_pnl] >>
      [] f.pc = "update_one" -> << [s EXCEPT !.active_trade = None], Done(f) >>

\* The pending callbacks without callback t.
Without(frames, t) ==
    [i \in 1..(Len(frames) - 1) |-> IF i < t THEN frames[i] ELSE frames[i + 1]]

\* A session that has been started.
InitTasks ==
    /\ LifeIdle
    /\ ValIdle
    /\ TrendIdle
    /\ MktIdle
    /\ TaskIdle
    /\ MgrIdle
    /\ ConcIdle
    /\ today = 0
    /\ gov = "RiskEngine"
    /\ drm = None
    /\ engine = RiskEngine(USER, MAX_TRADES, MAX_LOSS_AMT, 0)
    /\ \E st \in EarlierToday : redis = Stored(engine, st)
    /\ risk_ret = None
    /\ rtick = FALSE
    /\ day_pnl = 0
    /\ day_trades = 0
    /\ breach = FALSE
    /\ records = 0
    /\ is_active = TRUE
    /\ bg_tasks = <<"ws_task", "chain_task">>
    /\ active_trade = None
    /\ paper_trading \in BOOLEAN
    /\ entry_orders = <<>>
    /\ db_trades = EmptyDict
    /\ opened = 0
    /\ ev = <<>>
    /\ raised = None
    /\ call = [name |-> "", arg |-> None, bit |-> FALSE]

\* UpstoxWebSocket.on_message(message): the callback is scheduled.
OnMessage(feed, result) ==
    /\ is_active
    /\ ntasks < MaxMessages
    /\ Len(tasks) < MaxTasks
    /\ tasks' = Append(tasks, Frame(feed, result))
    /\ ntasks' = ntasks + 1
    /\ UNCHANGED <<placed, nrecorded>>
    /\ UNCHANGED <<lifeVars, riskVars, sessVars, concVars, valVars, trendVars, mktVars, mgrVars>>

\* The event loop runs callback t to its next await.
Resume(t, accepted) ==
    /\ t \in DOMAIN tasks
    /\ LET r == resume(TaskSession, engine, tasks[t], paper_trading,
                       place_order(paper_trading, accepted), opened + 1, is_active)
       IN  /\ active_trade' = r[1].active_trade
           /\ redis' = r[1].redis
           /\ entry_orders' = r[1].entry_orders
           /\ db_trades' = r[1].db_trades
           /\ ev' = r[1].ev
           /\ raised' = r[1].raised
           /\ placed' = r[1].placed
           /\ nrecorded' = r[1].nrecorded
           /\ tasks' = IF r[2].pc = "done" THEN Without(tasks, t)
                                           ELSE [tasks EXCEPT ![t] = r[2]]
    /\ UNCHANGED <<is_active, bg_tasks, paper_trading, opened, call, ntasks>>
    /\ UNCHANGED <<today, gov, drm, engine, risk_ret, rtick, day_pnl, day_trades, breach, records>>
    /\ UNCHANGED <<lifeVars, concVars, valVars, trendVars, mktVars, mgrVars>>

NextTasks ==
    \/ \E feed \in BatchFeeds, result \in TaskResults : OnMessage(feed, result)
    \/ \E t \in 1..MaxTasks, accepted \in BOOLEAN : Resume(t, accepted)
    \/ Stop
    \/ FillConfirmed

SpecTasks == InitTasks /\ [][NextTasks]_vars

(***************************************************************************)
(* app/services/trading_manager.py : TradingManager.  redis_manager's      *)
(* subscribe awaits the callback of one command before it reads the next   *)
(* message, so the commands are handled one at a time.  Each UserTrader    *)
(* carries the number of its construction as its identity.                 *)
(***************************************************************************)
\* The most UserTrader objects constructed in a run.
MaxCreated == 3

Users == {"u1", "u2"}

\* "action" of a command: the three handle_command knows, and another.
Actions == {"START_TRADING", "STOP_TRADING", "UPDATE_SETTINGS", "PAUSE"}

\* "data" of a command: access_token present ("tok") or absent (""), and
\* strategy_config present or absent.
CommandData ==
    [ access_token    : {"", "tok"},
      strategy_config : {None, Some([PAPER_TRADING |-> FALSE])} ]

\* UserTrader.__init__(user_id, access_token, config), config (cfg) a dict.
UserTrader(user_id, access_token, cfg) ==
    [ user_id      |-> user_id,
      access_token |-> access_token,
      config       |-> cfg,
      is_paper     |-> cfg.PAPER_TRADING,
      is_active    |-> FALSE,
      bg_tasks     |-> <<>>,
      active_trade |-> None,
      ev           |-> <<>> ]

\* The manager a command works on; removed is the UserTrader the command
\* has deleted from active_traders.
Manager ==
    [active_traders |-> active_traders, created |-> created, raised |-> None, removed |-> None]

\* active_traders without the entry of user_id.
Del(traders, user_id) == [u \in DOMAIN traders \ {user_id} |-> traders[u]]

\* The manager after "trader = UserTrader(...)", the registration and
\* "await trader.start()".
Register(m, user_id, data) ==
    [m EXCEPT
       !.created = @ + 1,
       !.active_traders =
           (user_id :> start(WithId(UserTrader(user_id, data.access_token,
                                               data.strategy_config[1]),
                                    m.created + 1))) @@ @]

\* start_user_trading without the "if user_id in self.active_traders" test.
start_user_trading_Unguarded(m, user_id, data) ==
    IF data.access_token = "" THEN m
    ELSE IF data.strategy_config = None
    THEN [m EXCEPT !.raised = Some("AttributeError")]
    ELSE Register(m, user_id, data)

\* TradingManager.start_user_trading(user_id, data); a strategy_config that
\* is absent makes UserTrader.__init__ raise at config.get.
start_user_trading(m, user_id, data) ==
    IF data.access_token = "" THEN m
    ELSE IF user_id \in DOMAIN m.active_traders THEN m
    ELSE IF data.strategy_config = None
    THEN [m EXCEPT !.raised = Some("AttributeError")]
    ELSE Register(m, user_id, data)

\* TradingManager.stop_user_trading(user_id)
stop_user_trading(m, user_id) ==
    IF user_id \in DOMAIN m.active_traders
    THEN [m EXCEPT !.removed = Some(stop(m.active_traders[user_id])),
                   !.active_traders = Del(@, user_id)]
    ELSE m

\* TradingManager.update_settings(user_id, config)
update_settings(m, user_id, cfg) ==
    IF user_id \in DOMAIN m.active_traders
    THEN [m EXCEPT !.active_traders[user_id].config = cfg]
    ELSE m

\* TradingManager.handle_command(command)
handle_command(m, cmd) ==
    IF cmd.action = "START_TRADING" THEN start_user_trading(m, cmd.user_id, cmd.data)
    ELSE IF cmd.action = "STOP_TRADING" THEN stop_user_trading(m, cmd.user_id)
    ELSE IF cmd.action = "UPDATE_SETTINGS" THEN update_settings(m, cmd.user_id, cmd.data)
    ELSE m

InitManager ==
    /\ LifeIdle
    /\ RiskIdle
    /\ SessIdle
    /\ ConcIdle
    /\ ValIdle
    /\ TrendIdle
    /\ MktIdle
    /\ TaskIdle
    /\ MgrIdle

HandleCommand(action, user_id, data) ==
    /\ LET m == handle_command(Manager, [action |-> action, user_id |-> user_id, data |-> data])
       IN  /\ m.created <= MaxCreated
           /\ active_traders' = m.active_traders
           /\ created' = m.created
           /\ command' = [action |-> action, user_id |-> user_id, data |-> data,
                          raised |-> m.raised, removed |-> m.removed, bit |-> ~command.bit]
    /\ UNCHANGED <<lifeVars, riskVars, sessVars, concVars, valVars, trendVars, mktVars, taskVars>>

\* The execution collaborator confirms a fill to the session of a registered
\* user, and the context of the trade is created.
SessionFill(user_id, sig) ==
    /\ user_id \in DOMAIN active_traders
    /\ active_traders[user_id].active_trade = None
    /\ active_traders' = [active_traders EXCEPT ![user_id].active_trade =
                             ActiveTradeContext(TradeOfSignal(sig, "OPEN"), sig.atr,
                                                sig.stop_loss, sig.target)]
    /\ UNCHANGED <<created, command>>
    /\ UNCHANGED <<lifeVars, riskVars, sessVars, concVars, valVars, trendVars, mktVars, taskVars>>

NextManager ==
    \/ \E action \in Actions, user_id \in Users, data \in CommandData :
          HandleCommand(action, user_id, data)
    \/ \E user_id \in Users : SessionFill(user_id, CHOOSE sig \in Signals : sig.signal = "BUY_CALL")

SpecManager == InitManager /\ [][NextManager]_vars

\* A step of SpecLife that is an update call.
IsCall == tick' # tick

IsCallTrade == ctx.trade.tradeType = CALL

\* C1: a call whose price is at or through the stop held at its start returns
\* exactly {action: EXIT_ALL, reason: STOP_LOSS, price: that stop} (so no
\* update_sl and no partial_exit key) and leaves the whole context unchanged,
\* also when the price is past a lifecycle threshold not yet taken.
C1_StopHitExclusive ==
    [][ (IsCall /\ Through(ctx, args'.current_price))
        => /\ last' = [action |-> "EXIT_ALL", reason |-> "STOP_LOSS", price |-> ctx.current_sl]
           /\ ctx' = ctx ]_vars

\* C1 witness: a stop-hit call whose excursion was past the break-even
\* threshold while break-even had not been taken.
C1_Witness ==
    /\ args # None
    /\ Through(ctx, args.current_price)
    /\ 10 * Excursion(ctx, args.current_price) >= 10 * ctx.atr
    /\ ~ctx.be_moved
    /\ last = [action |-> "EXIT_ALL", reason |-> "STOP_LOSS", price |-> ctx.current_sl]

\* C2: from a state with trailing_active, no update call loosens the stop: it
\* does not fall for a CALL and does not rise for a PUT, whatever the candle.
C2_TrailingNeverLoosens ==
    [][ ctx.trailing_active
        => IF IsCallTrade THEN ctx'.current_sl >= ctx.current_sl
                          ELSE ctx'.current_sl <= ctx.current_sl ]_vars

\* C2 witness: trailing is active, the stop has been trailed past the entry,
\* and the latest call supplied a candle on the loosening side of the stop.
C2_Witness ==
    /\ ctx.trailing_active
    /\ args # None
    /\ "action" \notin DOMAIN last
    /\ IF IsCallTrade
       THEN ctx.current_sl > ctx.entry_price /\ args.low < ctx.current_sl
       ELSE ctx.current_sl < ctx.entry_price /\ args.high > ctx.current_sl

\* The candle value the trailing step of the same call takes as the stop
\* when the call's excursion is >= 1.5 ATR and that value is beyond the entry.
TrailsPastEntry(c, a) ==
    /\ 10 * Excursion(c, a.current_price) >= 15 * c.atr
    /\ IF c.trade.tradeType = CALL THEN a.low > c.entry_price ELSE a.high < c.entry_price

\* No break-even in a step: the stop is not moved to the entry price and the
\* returned dict reports neither a stop update to the entry nor the BE log.
NoBreakEvenStep ==
    /\ ctx'.current_sl = ctx.entry_price => ctx.current_sl = ctx.entry_price
    /\ "update_sl" \in DOMAIN last' => last'.update_sl # ctx.entry_price
    /\ "log" \in DOMAIN last' => last'.log # "BE"

\* What C3 says of every call but the first qualifying one.
C3_Rest ==
    /\ (~be_due /\ ~Reaches(ctx, args'.current_price, 10))
           => ~ctx'.be_moved /\ NoBreakEvenStep
    /\ be_due => ctx'.be_moved /\ NoBreakEvenStep

\* C3 as stated: the first call that is no stop-hit and has excursion >= 1.0
\* ATR leaves the stop exactly at the entry price and sets be_moved; no other
\* call moves the stop to break-even or reports a break-even action.
C3_Original ==
    [][ IsCall =>
        /\ (~be_due /\ Reaches(ctx, args'.current_price, 10))
               => ctx'.be_moved /\ ctx'.current_sl = ctx.entry_price
        /\ C3_Rest ]_vars

\* C3 amended: as C3_Original, but when that first call also has excursion
\* >= 1.5 ATR and its candle low (CALL) / high (PUT) is beyond the entry
\* price, the call ends with the stop at that candle value instead.
C3_BreakEvenOnce ==
    [][ IsCall =>
        /\ (~be_due /\ Reaches(ctx, args'.current_price, 10))
               => /\ ctx'.be_moved
                  /\ ctx'.current_sl =
                        IF TrailsPastEntry(ctx, args')
                        THEN (IF IsCallTrade THEN args'.low ELSE args'.high)
                        ELSE ctx.entry_price
        /\ C3_Rest ]_vars

\* C3 witness: break-even was taken by an earlier call and the latest call,
\* again no stop-hit with excursion >= 1.0 ATR, returned no action at all.
C3_Witness ==
    /\ args # None
    /\ be_due /\ ctx.be_moved
    /\ ctx.current_sl = ctx.entry_price
    /\ Reaches(ctx, args.current_price, 10)
    /\ last = EmptyDict

\* C4: a call returns partial_exit exactly when it is the first call that is
\* no stop-hit and has excursion >= 1.2 ATR; the value is 50%; so at most one
\* call of any sequence returns it.
C4_PartialExitOnce ==
    /\ [](partials <= 1)
    /\ [][ IsCall =>
           /\ ("partial_exit" \in DOMAIN last')
                  <=> (~pe_due /\ Reaches(ctx, args'.current_price, 12))
           /\ "partial_exit" \in DOMAIN last' => last'.partial_exit = 50 ]_vars

\* C4 witness: one partial exit was returned earlier and the latest call,
\* again no stop-hit with excursion >= 1.2 ATR, returned none.
C4_Witness ==
    /\ args # None
    /\ partials = 1
    /\ Reaches(ctx, args.current_price, 12)
    /\ "partial_exit" \notin DOMAIN last

\* A step that is a can_trade call of the governor.
IsCanTrade == rtick' # rtick /\ records' = records

\* C5: once a record_trade has brought the calendar day's cumulative P&L to
\* <= -max_loss, every later can_trade of that day is refused, whatever was
\* recorded in between.
C5_StickyLock == [][ (IsCanTrade /\ breach) => ~risk_ret'.ok ]_vars

\* C5 on the day of construction, before any date change.
C5_StickyLockFirstDay == [][ (IsCanTrade /\ breach /\ today = 0) => ~risk_ret'.ok ]_vars

\* C5 witness: on the day of construction, after the breach the day's P&L
\* has recovered above -max_loss, the trade count is below max_trades, and
\* the can_trade that followed was refused.
C5_Witness ==
    /\ today = 0
    /\ breach
    /\ day_pnl > -Limits.max_loss_amt
    /\ records < Limits.max_trades
    /\ risk_ret # None
    /\ ~risk_ret.ok

\* A step that is a call of the handler.
IsHandler(name) == call' # call /\ call'.name = name

\* The collaborator calls of a log that are calls of op.
Calls(log, op) == {i \in 1..Len(log) : log[i].op = op}

\* The ENTRY orders a log places with the status returned.
EntryOrders(log, status) ==
    {i \in Calls(log, "execution_service.place_order") :
        log[i].arg[3] = "ENTRY" /\ log[i].arg[4] = status}

\* A step leaves the entry side of the session alone: no order at the broker,
\* no context, no trade document.
NoEntry ==
    /\ Calls(ev', "execution_service.place_order") = {}
    /\ Calls(ev', "db.trades.insert_one") = {}
    /\ active_trade' = active_trade
    /\ entry_orders' = entry_orders
    /\ db_trades' = db_trades

\* C6: while a trade is active no entry is made.  handle_signal called while
\* active_trade is set returns having called no collaborator at all (no
\* can_trade, no order) and leaves the session as it is; on_market_data for a
\* feed with a candle while active_trade is set calls neither the analyzer
\* nor can_trade and places no ENTRY order; and no step puts another trade's
\* context in the place of a context that exists.
C6_OneContext ==
    [][ /\ (IsHandler("handle_signal") /\ active_trade # None)
            => (ev' = <<>> /\ NoEntry /\ redis' = redis /\ raised' = None)
        /\ (IsHandler("on_market_data") /\ active_trade # None /\ call'.arg = Some(TRUE))
            => /\ Calls(ev', "analyzer.process_tick") = {}
               /\ Calls(ev', "risk_engine.can_trade") = {}
               /\ EntryOrders(ev', "success") \cup EntryOrders(ev', "error") = {}
               /\ entry_orders' = entry_orders
        /\ (active_trade # None /\ active_trade' # None)
            => active_trade'.trade.id = active_trade.trade.id ]_vars

\* C6 witness: handle_signal has just been called with a trade active (the
\* handler creates no context itself, so the trade was active before the
\* call) and it called no collaborator.
C6_Witness ==
    /\ call.name = "handle_signal"
    /\ active_trade # None
    /\ ev = <<>>

\* The three refusal conditions of the risk governor, on the stored stats.
Refuses(e, store) ==
    \/ get_stats(e, store).locked
    \/ get_stats(e, store).trades >= e.max_trades
    \/ get_stats(e, store).pnl <= -e.max_loss_amt

\* C7: when one of the three refusal conditions holds (locked, trade count
\* >= max_trades, P&L <= -max_loss), a handle_signal that gets to the risk
\* check, called directly or from on_market_data, consults can_trade, places
\* no order, creates no context and writes no trade document; and an ENTRY
\* order is only ever placed when none of the three conditions holds.
C7_RefusalBlocksEntry ==
    [][ /\ (IsHandler("handle_signal") /\ active_trade = None /\ Refuses(engine, redis))
            => (Calls(ev', "risk_engine.can_trade") # {} /\ NoEntry)
        /\ ((IsHandler("handle_signal") \/ IsHandler("on_market_data"))
            /\ EntryOrders(ev', "success") \cup EntryOrders(ev', "error") # {})
            => ~Refuses(engine, redis) ]_vars

\* C7 witness: handle_signal has just been refused: it called can_trade and
\* nothing else, with no trade active and the count at max_trades, unlocked.
C7_Witness ==
    /\ call.name = "handle_signal"
    /\ active_trade = None
    /\ Len(ev) = 1
    /\ ev[1].op = "risk_engine.can_trade"
    /\ get_stats(engine, redis).trades >= MAX_TRADES
    /\ ~get_stats(engine, redis).locked

\* C8: when the ENTRY order of a handle_signal (called directly or from
\* on_market_data) comes back with status error, the handler returns without
\* raising, active_trade is None, no trade document is written and the broker
\* holds no new order.
C8_FailedEntryLeavesNothing ==
    [][ ((IsHandler("handle_signal") \/ IsHandler("on_market_data"))
         /\ EntryOrders(ev', "error") # {})
        => /\ active_trade' = None
           /\ raised' = None
           /\ Calls(ev', "db.trades.insert_one") = {}
           /\ db_trades' = db_trades
           /\ entry_orders' = entry_orders ]_vars

\* C8 witness: a live handle_signal whose ENTRY order has just failed.
C8_Witness ==
    /\ call.name = "handle_signal"
    /\ ~paper_trading
    /\ EntryOrders(ev, "error") # {}
    /\ active_trade = None
    /\ raised = None

\* C9: stop on an active session cancels every task of bg_tasks, empties
\* bg_tasks, sets is_active to False and leaves active_trade, the store, the
\* broker's orders and the trade documents as they are, placing no order;
\* stop on an inactive session calls nothing and changes nothing.
C9_StopFrame ==
    [][ IsHandler("stop")
        => /\ is_active' = FALSE
           /\ active_trade' = active_trade
           /\ UNCHANGED <<redis, entry_orders, db_trades, opened, paper_trading>>
           /\ Calls(ev', "execution_service.place_order") = {}
           /\ IF is_active
              THEN /\ bg_tasks' = <<>>
                   /\ \A i \in 1..Len(bg_tasks) :
                         \E j \in Calls(ev', "task.cancel") : ev'[j].arg = <<bg_tasks[i]>>
              ELSE /\ bg_tasks' = bg_tasks
                   /\ ev' = <<>> ]_vars

\* C9 witness: stop has just run on a session that was active (it cancelled
\* the feed task and the refresh task) while a trade was being managed.
C9_Witness ==
    /\ call.name = "stop"
    /\ ~is_active
    /\ bg_tasks = <<>>
    /\ active_trade # None
    /\ \E j \in Calls(ev, "task.cancel") : ev[j].arg = <<"ws_task">>
    /\ \E j \in Calls(ev, "task.cancel") : ev[j].arg = <<"chain_task">>

\* C10: whenever no record_trade call is under way, the stored trade count
\* is the number of calls made and the stored P&L is the sum of their pnl
\* arguments, whatever the order in which the store commands of the calls
\* of the sessions were served.
C10_NoLostUpdate ==
    (\A x \in Sessions : pc[x] = "idle")
    => /\ get_stats(engine, redis).trades = ncalls
       /\ get_stats(engine, redis).pnl = sum_pnl

\* C10 witness: all calls have returned, there were MaxCalls of them, and
\* one started while another session's call was under way.
C10_Witness ==
    /\ \A x \in Sessions : pc[x] = "idle"
    /\ ncalls = MaxCalls
    /\ overlapped
    /\ get_stats(engine, redis).trades = ncalls

\* A step of SpecRisk that is a call of the governor, can_trade or record_trade.
IsGovCall == rtick' # rtick

\* The day's trade count, cumulative P&L and lock as the governor holds them.
GovStats ==
    IF gov = "DailyRiskMonitor"
    THEN [trades |-> drm.trades_taken, pnl |-> drm.daily_pnl, locked |-> drm.is_locked]
    ELSE get_stats(engine, redis)

\* C11: after every can_trade or record_trade the governor's trade count and
\* cumulative P&L are those of the calendar day of the call (zero on the
\* first call after the date has advanced, plus the trade of that call if
\* it is a record_trade), and it is locked only for a breach of that day;
\* nothing of an earlier day is carried over.
C11_DayRollover ==
    [][ IsGovCall
        => /\ GovStats'.trades = day_trades'
           /\ GovStats'.pnl = day_pnl'
           /\ GovStats'.locked = breach' ]_vars

\* C13: a call that is no stop-hit with excursion >= 1.5 ATR leaves be_moved,
\* is_partial_booked and trailing_active all true, and the dict a call
\* returns reports every step that fired in it: the break-even move (stop
\* update to the entry price, with its log), the partial exit (50 percent)
\* and the trailing move (stop update to the new stop).
C13_AllStepsReported ==
    [][ (IsCall /\ ~Through(ctx, args'.current_price))
        => /\ Reaches(ctx, args'.current_price, 15)
                => ctx'.be_moved /\ ctx'.is_partial_booked /\ ctx'.trailing_active
           /\ (~ctx.be_moved /\ ctx'.be_moved)
                => /\ "update_sl" \in DOMAIN last'
                   /\ last'.update_sl = ctx.entry_price
           /\ (~ctx.is_partial_booked /\ ctx'.is_partial_booked)
                => /\ "partial_exit" \in DOMAIN last'
                   /\ last'.partial_exit = PARTIAL_EXIT_PCT
           /\ (ctx'.trailing_active /\ ctx'.current_sl # ctx.current_sl
               /\ ctx'.current_sl # ctx.entry_price)
                => /\ "update_sl" \in DOMAIN last'
                   /\ last'.update_sl = ctx'.current_sl ]_vars

\* C14: once a call on a context has returned EXIT_ALL, no later call on it
\* returns a stop update or a partial exit or changes the stop or a flag,
\* whatever its price.
C14_ExitTerminal ==
    [][ (IsCall /\ exited)
        => /\ "update_sl" \notin DOMAIN last'
           /\ "partial_exit" \notin DOMAIN last'
           /\ ctx'.current_sl = ctx.current_sl
           /\ ctx'.be_moved = ctx.be_moved
           /\ ctx'.is_partial_booked = ctx.is_partial_booked
           /\ ctx'.trailing_active = ctx.trailing_active ]_vars

\* C15: the three lifecycle flags are sticky: no step of any kind takes
\* trailing_active, be_moved or is_partial_booked from true back to false.
C15_FlagsSticky ==
    [][ /\ ctx.trailing_active => ctx'.trailing_active
        /\ ctx.be_moved => ctx'.be_moved
        /\ ctx.is_partial_booked => ctx'.is_partial_booked ]_vars

\* C15 witness: all three flags are still set after a call that was no
\* stop-hit and whose excursion was below every threshold.
C15_Witness ==
    /\ args # None
    /\ "action" \notin DOMAIN last
    /\ 10 * Excursion(ctx, args.current_price) < BE_ATR_X10 * ctx.atr
    /\ ctx.trailing_active
    /\ ctx.be_moved
    /\ ctx.is_partial_booked

\* The candle value the trailing step reads is at or on the loosening side of
\* the stop: the low for a CALL, the high for a PUT.
NotBeyondStop(c, a) ==
    IF c.trade.tradeType = CALL THEN a.low <= c.current_sl ELSE a.high >= c.current_sl

\* C16: in a call that starts with trailing active and is no stop-hit, a
\* candle low at or below the stop (CALL) or high at or above it (PUT) leaves
\* the stop unchanged and returns no update_sl; and an update_sl is returned
\* only when the call changed the stop, carrying the new stop.
C16_NoSpuriousStopUpdate ==
    [][ (IsCall /\ ctx.trailing_active /\ ~Through(ctx, args'.current_price))
        => /\ NotBeyondStop(ctx, args')
               => ctx'.current_sl = ctx.current_sl /\ "update_sl" \notin DOMAIN last'
           /\ "update_sl" \in DOMAIN last'
               => ctx'.current_sl # ctx.current_sl /\ last'.update_sl = ctx'.current_sl ]_vars

\* C16 witness: the stop was trailed beyond the entry by an earlier call and
\* the latest call, no stop-hit, brought a candle not beyond that stop and
\* returned no update_sl.
C16_Witness ==
    /\ args # None
    /\ ctx.trailing_active
    /\ "action" \notin DOMAIN last
    /\ "update_sl" \notin DOMAIN last
    /\ NotBeyondStop(ctx, args)
    /\ IF IsCallTrade THEN ctx.current_sl > ctx.entry_price
                      ELSE ctx.current_sl < ctx.entry_price

\* A step that is a record_trade call of the governor.
IsRecordTrade == IsGovCall /\ records' # records

\* C17: record_trade(pnl) raises the stored trade count by exactly 1 and the
\* stored P&L by exactly pnl, sets the lock when the resulting P&L is at or
\* below -max_loss_amt, and never clears a lock that was set.
C17_RecordTrade ==
    [][ IsRecordTrade
        => /\ GovStats'.trades = GovStats.trades + 1
           /\ GovStats'.pnl = GovStats.pnl + (day_pnl' - day_pnl)
           /\ GovStats'.pnl <= -Limits.max_loss_amt => GovStats'.locked
           /\ GovStats.locked => GovStats'.locked ]_vars

\* C17 witness: the latest call was a record_trade with a gain, made with the
\* lock set, that brought the P&L back above -max_loss_amt; the lock is still
\* set.
C17_Witness ==
    /\ records >= 2
    /\ risk_ret = None
    /\ GovStats.locked
    /\ GovStats.pnl > -Limits.max_loss_amt
    /\ GovStats.trades = records

\* A step in which a validate_signal call returns.
IsVerdict == Len(verdicts') > Len(verdicts)

\* The oracle's reply is a failure: the call raised, or its text is no JSON
\* object.
Unusable(r) == r.kind = "raise" \/ json_loads(r.text).type # "dict"

\* C18, what a returning call returns: approve is true when no oracle is
\* configured, when the oracle call raises and when the reply cannot be
\* parsed; approve is false only for a parsed reply whose verdict is not GO.
C18_ApprovesUnlessVetoed ==
    [][ IsVerdict
        => /\ ~validator.model => approve'.ok
           /\ (validator.model /\ Unusable(oracle')) => approve'.ok
           /\ ~approve'.ok
                => /\ validator.model
                   /\ oracle'.kind = "text"
                   /\ json_loads(oracle'.text).type = "dict"
                   /\ dict_get(json_loads(oracle'.text).value, "verdict", "NO_GO") # "GO" ]_vars

\* C18, an unresponsive oracle: a call that awaits the oracle returns.
C18_NeverBlocks == (vpc = "to_thread") ~> (vpc = "returned")

\* C18: validate_signal is fail-open and an unavailable or unresponsive
\* oracle never blocks a signal: every call returns, with approve = true
\* unless a parsed reply carries a verdict other than GO.
C18_FailOpen == C18_ApprovesUnlessVetoed /\ C18_NeverBlocks

\* C19: in a message with several instruments every feed is handled: an
\* error raised while one is handled is caught (the handler does not raise)
\* and the trade update or the analysis of each of the others still runs.
C19_BatchGoesOn ==
    [][ IsHandler("on_market_data")
        => /\ raised' = None
           /\ Cardinality(Calls(ev', "active_trade.update"))
                + Cardinality(Calls(ev', "analyzer.process_tick")) = call'.arg[1] ]_vars

\* C20: the candle window of an instrument holds no two candles with the
\* same timestamp and is sorted ascending by timestamp.
C20_WindowSortedUnique ==
    \A i, j \in DOMAIN candle_store :
        i < j => candle_store[i].timestamp < candle_store[j].timestamp

\* The live entry orders among the orders.
LiveEntries(orders) == {i \in DOMAIN orders : orders[i] = "algo_entry"}

\* The tags of the analyzer results the handler call logged.
LoggedSignals(log) == {log[i].arg[1] : i \in Calls(log, "db.signals.insert_one")}

\* C12: a candidate whose confidence is below minConfidence produces no
\* entry: analyze_trend inserts no trade document and places no entry order,
\* and every document it has inserted carries a confidence of at least
\* minConfidence; on_market_data reaches handle_signal (the risk check, an
\* ENTRY order, a trade document) only for a result tagged BUY_CALL or
\* BUY_PUT.
C12_ScoreGate ==
    [][ /\ (config # None /\ analysis'.analysed /\ analysis'.confidence < MIN_CONFIDENCE)
            => /\ Len(virtual_trades') = Len(virtual_trades)
               /\ LiveEntries(live_orders') = LiveEntries(live_orders)
        /\ \A i \in DOMAIN virtual_trades' : virtual_trades'[i].confidence >= MIN_CONFIDENCE
        /\ (/\ IsHandler("on_market_data")
            /\ \/ Calls(ev', "risk_engine.can_trade") # {}
               \/ Calls(ev', "execution_service.place_order") # {}
               \/ db_trades' # db_trades)
            => /\ LoggedSignals(ev') # {}
               /\ LoggedSignals(ev') \subseteq {"BUY_CALL", "BUY_PUT"} ]_vars

\* C12 witness: analyze_trend has just scored an aligned candidate at 38,
\* with no open trade and consistent signals, and no document exists.
C12_Witness ==
    /\ analysis # None
    /\ analysis.analysed
    /\ analysis.confidence < MIN_CONFIDENCE
    /\ analysis.confidence > 0
    /\ analysis.can_trade
    /\ analysis.signals_consistent
    /\ previous_signals_cache.signals.ema = "BULLISH"
    /\ previous_signals_cache.signals.supertrend = "UP"
    /\ virtual_trades = <<>>

\* C21: a candle arriving with the timestamp of a stored candle replaces it:
\* afterwards the window holds the arriving candle for that timestamp, and
\* the length of the window is unchanged.
C21_Upsert ==
    [][ (repeats' # <<>> /\ Len(repeats') = 1)
        => /\ \E i \in DOMAIN candle_store' : candle_store'[i] = repeats'[1]
           /\ Len(candle_store') = Len(candle_store) ]_vars

\* C22: when can_trade allows and the ENTRY order of handle_signal is placed
\* with success, the handler returns without raising and leaves an
\* ActiveTradeContext for the new trade, with the stop, target and ATR of
\* the signal; the order is tracked by it, so no accepted order is left
\* without a context.
C22_EntryLeavesContext ==
    [][ (IsHandler("handle_signal") /\ EntryOrders(ev', "success") # {})
        => /\ raised' = None
           /\ active_trade' # None
           /\ \E signal \in Signals :
                 /\ active_trade'.current_sl = signal.stop_loss
                 /\ active_trade'.target = signal.target
                 /\ active_trade'.atr = signal.atr
           /\ entry_orders' = entry_orders ]_vars

\* The on_market_data call made the lifecycle update with a price at or
\* through the stop of the trade that was active.
StopHitTick ==
    /\ IsHandler("on_market_data")
    /\ active_trade # None
    /\ \E i \in Calls(ev', "active_trade.update") : Through(active_trade, ev'[i].arg[1])

\* The P&L of closing trade context c at its stop.
StopPnl(c) ==
    IF c.trade.tradeType = CALL
    THEN (c.current_sl - c.entry_price) * c.trade.quantity
    ELSE (c.entry_price - c.current_sl) * c.trade.quantity

IsMkt(name, i) == mcall' # mcall /\ mcall'.name = name /\ mcall'.instrument = i

IsSignal(e) == e # None /\ e.kind = "signal"

\* C25: an iteration of update_option_chain_loop, whether it gets no spot
\* price, fails on the chain or refreshes the context, leaves the candle
\* window of every instrument as it was, also between ticks of the feed: of
\* the index's MarketState it writes the put/call ratio and the
\* open-interest history only, and the other instruments' states not at all.
C25_RefreshLeavesCandles ==
    [][ IsMkt("update_option_chain_loop", INDEX)
        => /\ \A i \in Instruments : states'[i].candles = states[i].candles
           /\ [states'[INDEX] EXCEPT !.pcr = states[INDEX].pcr,
                                     !.oi_history = states[INDEX].oi_history] = states[INDEX]
           /\ states'[NIFTY] = states[NIFTY] ]_vars

\* An iteration has refreshed the context of a window that holds the warmup
\* history and a candle of the feed.
C25_Witness ==
    /\ mcall.name = "update_option_chain_loop"
    /\ nticks >= 1
    /\ states[INDEX].oi_history # <<>>
    /\ Len(states[INDEX].candles) >= 2

\* C26: a tick that emits a signal arms its instrument's lock with the time
\* and the signal; a tick on an instrument whose lock is armed for less than
\* the cooldown emits no signal; a tick on an instrument whose lock has been
\* armed for the cooldown or longer is not turned away by the lock; and a
\* tick leaves the state of every other instrument, its lock included, as
\* it was.
C26_CooldownLock ==
    [][ \A i \in Instruments :
          IsMkt("process_tick", i)
          => /\ IsSignal(emitted')
                => states'[i].lock = [locked |-> TRUE, time |-> Minutes(now),
                                      signal |-> emitted'.direction]
             /\ (states[i].lock.locked
                 /\ Minutes(now) - states[i].lock.time < COOLDOWN_MINUTES)
                => /\ ~IsSignal(emitted')
                   /\ states'[i].lock = states[i].lock
             /\ (states[i].lock.locked
                 /\ Minutes(now) - states[i].lock.time >= COOLDOWN_MINUTES)
                => emitted' # Rejected("cooldown active")
             /\ \A j \in Instruments \ {i} : states'[j] = states[j] ]_vars

\* The index's tick was turned away by its lock while the other
\* instrument's lock is armed as well.
C26_Witness ==
    /\ mcall.name = "process_tick"
    /\ mcall.instrument = INDEX
    /\ emitted = Rejected("cooldown active")
    /\ states[INDEX].lock.locked
    /\ states[NIFTY].lock.locked
    /\ states[NIFTY].lock.time # states[INDEX].lock.time

\* The steps of the pipeline in their order.
PipelineOrder ==
    <<"staleness", "update", "cooldown", "time_of_day", "regime", "trigger", "score", "risk",
      "arm", "emit">>

InTrace(step, tr) == \E n \in DOMAIN tr : tr[n] = step

C28_OpeningRangeFrozen ==
    [][ \A i \in Instruments :
          (IsMkt("process_tick", i) /\ states[i].orb.finalized
           /\ states'[i].orb.date = states[i].orb.date)
          => states'[i].orb = states[i].orb ]_vars

\* After the record was finalized a candle reaching beyond the range was
\* processed on the same day.
C28_Witness ==
    \E i \in Instruments :
        LET cs == states[i].candles
            orb == states[i].orb
        IN  /\ orb.finalized
            /\ Len(cs) = 3
            /\ \A n \in 1..3 : cs[n].day = orb.date
            /\ cs[1].minute < OpeningMinutes
            /\ cs[2].minute >= OpeningMinutes
            /\ cs[3].high > orb.high
            /\ cs[3].low < orb.low

\* The volume of the candles of cs, and their typical price x volume.
RECURSIVE SumVolume(_)
SumVolume(cs) == IF cs = <<>> THEN 0 ELSE Head(cs).volume + SumVolume(Tail(cs))

RECURSIVE SumPriceVolume(_)
SumPriceVolume(cs) ==
    IF cs = <<>> THEN 0
    ELSE ((Head(cs).high + Head(cs).low + Head(cs).close) * Head(cs).volume) \div 3
         + SumPriceVolume(Tail(cs))

\* The candles of cs whose day is the latest day of cs.
LatestDay(cs) ==
    SelectSeq(cs, LAMBDA c : \A n \in DOMAIN cs : cs[n].day <= c.day)

\* C29: after any candles, the warmup history included, the VWAP
\* accumulators of an instrument are the sums of typical price x volume and
\* of volume over the candles of the latest day of its window, and the reset
\* date is that day.
C29_VwapLatestDay ==
    \A i \in Instruments :
        LET cs == LatestDay(states[i].candles)
        IN  cs # <<>>
            => /\ states[i].vwap_cum_vol = SumVolume(cs)
               /\ states[i].vwap_cum_vol_price = SumPriceVolume(cs)
               /\ states[i].vwap_reset_date = cs[1].day

\* C30: every select_strike_rate call returns the descriptor of its symbol
\* and direction at the strike ATM + offset, where ATM is a multiple of the
\* step (100 for a Bank symbol, 50 otherwise) at most half a step from the
\* spot, and the offset is one step in the money for capital above 50000
\* (CALL: -step, PUT: +step), one step out of the money for capital below
\* 10000 (CALL: +step, PUT: -step) and zero otherwise; a call with the
\* arguments of the call before it returns what that call returned.
C30_StrikeSelection ==
    [][ LET a == strike'.args
            step == IF a.symbol = INDEX THEN 100 ELSE 50
            itm == IF a.transaction_type = "CALL" THEN -step ELSE step
            offset == IF a.capital > 50000 THEN itm
                      ELSE IF a.capital < 10000 THEN -itm ELSE 0
            atm == strike'.ret[2] - offset
        IN  /\ strike'.ret[1] = a.symbol
            /\ strike'.ret[3] = a.transaction_type
            /\ atm % step = 0
            /\ 2 * atm <= 2 * a.spot_price + step
            /\ 2 * atm >= 2 * a.spot_price - step
            /\ (strike # None /\ strike.args = a) => strike'.ret = strike.ret ]_vars

\* A PUT on the Bank index with large capital, the spot half way between
\* two strikes: one step in the money from the even strike.
C30_Witness ==
    /\ strike # None
    /\ strike.args = [symbol |-> INDEX, spot_price |-> 50050, transaction_type |-> "PUT",
                      capital |-> 50001]
    /\ strike.ret = <<INDEX, 50100, "PUT">>

\* C31: with the record_trade calls of several sessions interleaved command
\* by command, once the stored P&L has been at or below -max_loss at some
\* instant, the lock is set and can_trade refuses whenever no call is under
\* way, also when a gain of another session has lifted the P&L again before
\* the losing call read it back.
C31_LockStickyConcurrent ==
    ((\A x \in Sessions : pc[x] = "idle") /\ breach)
    => /\ get_stats(engine, redis).locked
       /\ ~can_trade(engine, redis)[2].ok

\* The EXIT orders a log places with the status returned.
ExitOrders(log, status) ==
    {i \in Calls(log, "execution_service.place_order") :
        log[i].arg[3] = "EXIT" /\ log[i].arg[4] = status}

\* C34: an on_market_data call whose exit order comes back with an error
\* status leaves the context in place with its trade as it was, and leaves
\* the store of the risk counters and the trade documents unchanged.
C34_FailedExitKeepsState ==
    [][ (IsHandler("on_market_data") /\ ExitOrders(ev', "error") # {})
        => /\ active_trade' # None
           /\ active_trade' = active_trade
           /\ redis' = redis
           /\ db_trades' = db_trades ]_vars


\* C35: the lifecycle of the active trade is driven only by price updates of
\* the trade's own instrument: the feeds of one message are keyed by
\* instrument, so at most one of them is the trade's, and one on_market_data
\* call passes at most one price to the trade's context.
C35_OwnInstrumentOnly ==
    [][ (IsHandler("on_market_data") /\ active_trade # None)
        => Cardinality(Calls(ev', "active_trade.update")) <= 1 ]_vars


\* The flag stands exactly when the highest excursion has reached x10/10 ATR.
FlagAt(flag, x10) == flag <=> (10 * ctx.highest_mfe >= x10 * ctx.atr)

\* C38: for a trade with ATR > 0, after every update call be_moved holds iff
\* highest_mfe >= 1.0 ATR, is_partial_booked iff highest_mfe >= 1.2 ATR and
\* trailing_active iff highest_mfe >= 1.5 ATR, so that trailing_active implies
\* is_partial_booked implies be_moved; highest_mfe is never negative and no
\* call lowers it.
C38_FlagsFollowMfe ==
    /\ [](ctx.atr > 0 =>
            /\ FlagAt(ctx.be_moved, BE_ATR_X10)
            /\ FlagAt(ctx.is_partial_booked, PARTIAL_ATR_X10)
            /\ FlagAt(ctx.trailing_active, TRAIL_ATR_X10)
            /\ (ctx.trailing_active => ctx.is_partial_booked)
            /\ (ctx.is_partial_booked => ctx.be_moved)
            /\ ctx.highest_mfe >= 0)
    /\ [][ctx'.highest_mfe >= ctx.highest_mfe]_vars

\* C38 witness: all three flags stand and the latest call, no stop-hit, had
\* an excursion below the break-even threshold.
C38_Witness ==
    /\ args # None
    /\ ctx.atr > 0
    /\ ctx.trailing_active /\ ctx.is_partial_booked /\ ctx.be_moved
    /\ ~Through(ctx, args.current_price)
    /\ 10 * Excursion(ctx, args.current_price) < BE_ATR_X10 * ctx.atr
    /\ "action" \notin DOMAIN last

\* The stop is not on the losing side of the entry price.
StopSecured == IF IsCallTrade THEN ctx.current_sl >= ctx.entry_price
                              ELSE ctx.current_sl <= ctx.entry_price

\* C39: for a trade created with its stop on the losing side of the entry and
\* ATR > 0, no update call moves the stop against the trade, the break-even
\* step included: current_sl never falls for a CALL and never rises for a
\* PUT, and once be_moved holds it is not on the losing side of the entry.
C39_StopMonotone ==
    /\ [][ IF IsCallTrade THEN ctx'.current_sl >= ctx.current_sl
                          ELSE ctx'.current_sl <= ctx.current_sl ]_vars
    /\ [](ctx.be_moved => StopSecured)

\* C39 witness: the stop has been trailed past the entry, and the latest call
\* had an excursion of at least 1.0 ATR again, with a candle on the loosening
\* side of the stop.
C39_Witness ==
    /\ args # None
    /\ ctx.be_moved /\ ctx.trailing_active
    /\ ctx.current_sl # ctx.entry_price
    /\ StopSecured
    /\ Reaches(ctx, args.current_price, BE_ATR_X10)
    /\ IF IsCallTrade THEN args.low < ctx.current_sl ELSE args.high > ctx.current_sl


\* A step that handles a command.
IsCommand == command'.bit # command.bit

\* The step alters nothing of the session of user u: registered or not as
\* before, and if registered the same UserTrader in the same state.
SessionKept(u) ==
    /\ (u \in DOMAIN active_traders') <=> (u \in DOMAIN active_traders)
    /\ u \in DOMAIN active_traders => active_traders'[u] = active_traders[u]

\* The session registered for a user is of that user and running, and no
\* two registered sessions are the same UserTrader.
OneTraderPerUser ==
    /\ \A u \in DOMAIN active_traders :
          active_traders[u].user_id = u /\ active_traders[u].is_active
    /\ \A u, v \in DOMAIN active_traders :
          active_traders[u].id = active_traders[v].id => u = v

\* C40: over any sequence of START_TRADING, STOP_TRADING, UPDATE_SETTINGS and
\* unknown commands the manager holds at most one UserTrader per user id:
\* START for a registered user, or without an access token, keeps the session
\* with its config and its active trade; STOP stops the user's session and
\* removes it; UPDATE_SETTINGS replaces only the config of a registered
\* session; and a command for one user alters no session of another user.
C40_OneSessionPerUser ==
    /\ []OneTraderPerUser
    /\ [][ IsCommand =>
           LET c == command'
               u == c.user_id
               registered == u \in DOMAIN active_traders
           IN  /\ \A v \in Users \ {u} : SessionKept(v)
               /\ (c.action = "START_TRADING" /\ (registered \/ c.data.access_token = ""))
                     => SessionKept(u) /\ created' = created
               /\ (c.action = "STOP_TRADING" /\ registered)
                     => /\ u \notin DOMAIN active_traders'
                        /\ c.removed = Some([active_traders[u] EXCEPT
                                                !.is_active = FALSE, !.bg_tasks = <<>>,
                                                !.ev = c.removed[1].ev])
               /\ (c.action = "UPDATE_SETTINGS" /\ registered)
                     => active_traders' = [active_traders EXCEPT ![u].config = c.data]
               /\ (c.action \notin {"START_TRADING", "STOP_TRADING", "UPDATE_SETTINGS"}
                   \/ (c.action # "START_TRADING" /\ ~registered))
                     => SessionKept(u) /\ created' = created ]_vars

\* C40 witness: the latest command was a START with an access token and
\* another config for a user whose registered session holds a trade, while
\* the other user is registered as well.
C40_Witness ==
    /\ command.action = "START_TRADING"
    /\ command.data.access_token # ""
    /\ command.data.strategy_config # None
    /\ DOMAIN active_traders = Users
    /\ active_traders[command.user_id].active_trade # None
    /\ active_traders[command.user_id].config # command.data.strategy_config[1]


\* The orders with the tag that the broker accepted.
Accepted(tag) == {i \in DOMAIN placed : placed[i].tag = tag /\ placed[i].status = "success"}

\* C32: with the messages of the feed handled by overlapping on_market_data
\* callbacks at most one entry is in flight: no callback places an ENTRY
\* order when another callback has placed one since it passed the
\* active_trade test of handle_signal.
C32_OneEntryInFlight ==
    \A i \in Accepted("ENTRY") : ~placed[i].overlap

\* C33: a trade is closed at most once when callbacks overlap: at most one
\* EXIT order is placed for a trade, and record_trade is called at most once
\* for each trade opened.
C33_ClosedOnce ==
    /\ \A i, j \in Accepted("EXIT") : placed[i].trade = placed[j].trade => i = j
    /\ nrecorded <= opened

\* C36: once stop() has completed the session places no ENTRY order, also
\* from a callback that was scheduled or suspended before the stop.
C36_NoEntryAfterStop ==
    \A i \in Accepted("ENTRY") : placed[i].active

\* C37: the entry orders placed for the user on a day never exceed
\* max_trades: the trades closed earlier in the day, each of which had its
\* entry order, and the ENTRY orders of this session.
C37_EntriesWithinMaxTrades ==
    engine # None =>
        (get_stats(engine, redis).trades - nrecorded) + Cardinality(Accepted("ENTRY"))
            <= engine.max_trades

====
